---- MODULE Spec2Model ----
(***************************************************************************)
(* A model of the fect carrier/combinator runtime:                         *)
(*   - RemoteValue (lib/remotevalue.ts): one-shot settlement, registry,    *)
(*     timeout, cleanup in promise.finally;                                *)
(*   - the carrier model, lazy thunks and fn (lib/fect.ts, lib/fn.ts),     *)
(*     over a heap of objects (carriers, promises, lazies, Fail markers).  *)
(***************************************************************************)
EXTENDS Integers, Sequences, FiniteSets, TLC

\* ------------------------------------------------------------------ bounds
\* RemoteValue instances that may be constructed
NumRV == 1
\* settlement attempts recorded in one run of the RemoteValue machine
MaxAttempts == 3
\* values a caller passes to fill / resolveById
MaxFillVal == 2

\* arguments of one call of a wrapped function
MaxArgs == 2
\* calls in a chain g(f(x)) of wrapped functions
MaxChain == 2
\* forcings and discharges the caller performs in one run
MaxOps == 2
\* matches of a plain value in one run
MaxPlainMatches == 1
\* levels of lazy wrappers nested in one another
MaxDepth == 3

VARIABLES
  rvs,       \* id -> RemoteValue instance state
  registry,  \* RemoteValue.registry: the set of registered ids
  rvlog,     \* history: every settlement attempt, in order, with what it returned
  heap,      \* the objects: carriers, promises, lazy wrappers, Fail markers
  hlog,      \* history: every invocation of a wrapped handler, with its arguments
  calls,     \* history: every call of a wrapped function, with what it returned
  ops,       \* history: every force / try of the caller, with what it returned
  slog,      \* history: the async sources in the order they settled
  fxA,       \* merge algebra: three metadata records ...
  fxB,
  fxC,
  merged     \* ... and what mergeFxRuntime made of them

rvVars == <<rvs, registry, rvlog>>
fnVars == <<heap, hlog, calls, ops, slog>>
algVars == <<fxA, fxB, fxC, merged>>
vars == <<rvs, registry, rvlog, heap, hlog, calls, ops, slog, fxA, fxB, fxC, merged>>

\* ============================================================ RemoteValue

RVIds == 1..NumRV
FillVals == 1..MaxFillVal
\* rejection reasons: a caller-supplied reason, and the timeout error
Reasons == {"r1"}
TimeoutReason == "timeout"

\* A promise slot: pending, or settled with a value / a reason.
PendingSlot == [st |-> "pending", val |-> 0, why |-> "none"]
Fulfilled(v) == [st |-> "fulfilled", val |-> v, why |-> "none"]
Rejected(r) == [st |-> "rejected", val |-> 0, why |-> r]

\* An instance that has not been constructed yet.
NoRV ==
  [created |-> FALSE, register |-> FALSE, settled |-> FALSE, timeoutId |-> "null",
   base |-> PendingSlot, promise |-> PendingSlot]

\* new RemoteValue(options): settled = false, the timer armed when timeoutMs > 0.
\* `base` is the promise whose resolve/reject the instance keeps; `promise` is
\* base.finally(cleanup), the one wait()/then() hand out.
RVconstructor(register, withTimeout) ==
  [created |-> TRUE, register |-> register, settled |-> FALSE,
   timeoutId |-> IF withTimeout THEN "armed" ELSE "null",
   base |-> PendingSlot, promise |-> PendingSlot]

\* fill(value) without the settled guard (a second resolve() of a settled
\* promise is ignored by the promise itself).
fillUnguarded(r, v) ==
  [rv |-> [r EXCEPT !.settled = TRUE,
                    !.base = IF r.base.st = "pending" THEN Fulfilled(v) ELSE @],
   ret |-> TRUE]

\* fill(value): boolean
fill(r, v) ==
  IF r.settled THEN [rv |-> r, ret |-> FALSE]
  ELSE [rv |-> [r EXCEPT !.settled = TRUE, !.base = Fulfilled(v)], ret |-> TRUE]

\* fail(reason) that marks the instance settled but never calls reject().
failKeepsPending(r, why) ==
  IF r.settled THEN [rv |-> r, ret |-> FALSE]
  ELSE [rv |-> [r EXCEPT !.settled = TRUE], ret |-> TRUE]

\* fail(reason): boolean
fail(r, why) ==
  IF r.settled THEN [rv |-> r, ret |-> FALSE]
  ELSE [rv |-> [r EXCEPT !.settled = TRUE, !.base = Rejected(why)], ret |-> TRUE]

\* An entry of the attempt history. `reached` tells whether the call got to an
\* instance's fill/fail (a by-id call with an id the registry does not hold
\* reaches none).
Attempt(op, id, reached, ret, v, why) ==
  [op |-> op, id |-> id, reached |-> reached, ret |-> ret, val |-> v, why |-> why]

\* The finally-reaction of the base promise is queued and has not run yet.
CleanupQueued(r) == r.created /\ r.base.st # "pending" /\ r.promise.st = "pending"

\* No microtask is waiting: the event loop may run a timer callback.
MicrotasksDrained == \A i \in RVIds : ~CleanupQueued(rvs[i])

RVCreate(i, register, withTimeout) ==
  /\ ~rvs[i].created
  /\ \A j \in RVIds : j < i => rvs[j].created
  /\ rvs' = [rvs EXCEPT ![i] = RVconstructor(register, withTimeout)]
  /\ registry' = IF register THEN registry \cup {i} ELSE registry
  /\ UNCHANGED <<rvlog, fnVars, algVars>>

RVFill(i, v) ==
  /\ rvs[i].created
  /\ Len(rvlog) < MaxAttempts
  /\ LET res == fill(rvs[i], v) IN
       /\ rvs' = [rvs EXCEPT ![i] = res.rv]
       /\ rvlog' = Append(rvlog, Attempt("fill", i, TRUE, res.ret, v, "none"))
  /\ UNCHANGED <<registry, fnVars, algVars>>

RVFail(i, why) ==
  /\ rvs[i].created
  /\ Len(rvlog) < MaxAttempts
  /\ LET res == fail(rvs[i], why) IN
       /\ rvs' = [rvs EXCEPT ![i] = res.rv]
       /\ rvlog' = Append(rvlog, Attempt("fail", i, TRUE, res.ret, 0, why))
  /\ UNCHANGED <<registry, fnVars, algVars>>

\* resolveById that reaches the instance without looking it up in the registry.
resolveByIdUnregistered(i, v) ==
  /\ Len(rvlog) < MaxAttempts
  /\ LET res == fill(rvs[i], v) IN
       /\ rvs' = [rvs EXCEPT ![i] = res.rv]
       /\ rvlog' = Append(rvlog, Attempt("resolveById", i, TRUE, res.ret, v, "none"))
  /\ UNCHANGED <<registry, fnVars, algVars>>

\* static resolveById(id, value): the id may be any id, registered or not.
RVResolveById(i, v) ==
  /\ Len(rvlog) < MaxAttempts
  /\ IF i \in registry
       THEN LET res == fill(rvs[i], v) IN
              /\ rvs' = [rvs EXCEPT ![i] = res.rv]
              /\ rvlog' = Append(rvlog, Attempt("resolveById", i, TRUE, res.ret, v, "none"))
       ELSE /\ rvs' = rvs
            /\ rvlog' = Append(rvlog, Attempt("resolveById", i, FALSE, FALSE, v, "none"))
  /\ UNCHANGED <<registry, fnVars, algVars>>

\* static rejectById(id, reason)
RVRejectById(i, why) ==
  /\ Len(rvlog) < MaxAttempts
  /\ IF i \in registry
       THEN LET res == fail(rvs[i], why) IN
              /\ rvs' = [rvs EXCEPT ![i] = res.rv]
              /\ rvlog' = Append(rvlog, Attempt("rejectById", i, TRUE, res.ret, 0, why))
       ELSE /\ rvs' = rvs
            /\ rvlog' = Append(rvlog, Attempt("rejectById", i, FALSE, FALSE, 0, why))
  /\ UNCHANGED <<registry, fnVars, algVars>>

\* The setTimeout callback: this.fail(new Error("... timed out ...")). A timer
\* callback is a task of its own: it runs only when no microtask is waiting.
RVTimeout(i) ==
  /\ rvs[i].created
  /\ rvs[i].timeoutId = "armed"
  /\ MicrotasksDrained
  /\ LET res == fail(rvs[i], TimeoutReason) IN
       /\ rvs' = [rvs EXCEPT ![i] = [res.rv EXCEPT !.timeoutId = "fired"]]
       /\ rvlog' = Append(rvlog, Attempt("timeout", i, TRUE, res.ret, 0, TimeoutReason))
  /\ UNCHANGED <<registry, fnVars, algVars>>

\* The microtask checkpoint: for every settled base promise the finally
\* callback runs cleanup() (clearTimeout, registry.delete) and the promise that
\* wait() returns settles with the base outcome.
\* a cleanup that leaves the timer scheduled
cleanupKeepsTimer(r) == r

cleanup(r) == [r EXCEPT !.timeoutId = "null"]

RVMicrotasks ==
  /\ ~MicrotasksDrained
  /\ rvs' = [i \in RVIds |->
               IF CleanupQueued(rvs[i])
                 THEN [cleanup(rvs[i]) EXCEPT !.promise = rvs[i].base]
                 ELSE rvs[i]]
  /\ registry' = registry \ {i \in RVIds : CleanupQueued(rvs[i])}
  /\ UNCHANGED <<rvlog, fnVars, algVars>>

RVInit ==
  /\ rvs = [i \in RVIds |-> NoRV]
  /\ registry = {}
  /\ rvlog = <<>>

RVNext ==
  \/ \E i \in RVIds, reg \in BOOLEAN, tm \in BOOLEAN : RVCreate(i, reg, tm)
  \/ \E i \in RVIds, v \in FillVals : RVFill(i, v)
  \/ \E i \in RVIds, why \in Reasons : RVFail(i, why)
  \/ \E i \in RVIds, v \in FillVals : RVResolveById(i, v)
  \/ \E i \in RVIds, why \in Reasons : RVRejectById(i, why)
  \/ \E i \in RVIds : RVTimeout(i)
  \/ RVMicrotasks

FnInit ==
  /\ heap = <<>>
  /\ hlog = <<>>
  /\ calls = <<>>
  /\ ops = <<>>
  /\ slog = <<>>

\* no metadata record drawn (each is the empty record), nothing merged
NotMerged == [two |-> <<>>, three |-> <<>>]
AlgIdle == fxA = <<>> /\ fxB = <<>> /\ fxC = <<>> /\ merged = NotMerged

Init == RVInit /\ FnInit /\ AlgIdle

SpecRV == Init /\ [][RVNext]_vars

\* The event loop runs the callback of every armed timer once its delay has
\* passed, and runs every queued microtask.
RVFairness ==
  /\ \A i \in RVIds : WF_vars(RVTimeout(i))
  /\ WF_vars(RVMicrotasks)
SpecRVFair == Init /\ [][RVNext]_vars /\ RVFairness

\* C3: on every instance, among the settlement attempts that reach it (fill,
\* fail, the timeout callback, and by-id calls whose id the registry holds),
\* exactly the first returns true and every later one returns false; the
\* outcome of the instance (the promise behind wait()/await) is the value or
\* the reason of that first attempt in every later state, never another one.
ReachedAttempts(i) == SelectSeq(rvlog, LAMBDA a : a.id = i /\ a.reached)
OutcomeOf(a) ==
  IF a.op \in {"fill", "resolveById"} THEN Fulfilled(a.val) ELSE Rejected(a.why)
C3_FirstSettlementWins ==
  \A i \in RVIds :
    LET att == ReachedAttempts(i) IN
      /\ \A n \in 1..Len(att) : att[n].ret = (n = 1)
      /\ att = <<>> => rvs[i].base = PendingSlot /\ rvs[i].promise = PendingSlot
      /\ att # <<>> =>
            /\ rvs[i].base = OutcomeOf(att[1])
            /\ rvs[i].promise \in {PendingSlot, OutcomeOf(att[1])}
C3_Witness ==
  \E i \in RVIds :
    LET att == ReachedAttempts(i) IN
      /\ Len(att) >= 2
      /\ att[1].ret /\ ~att[2].ret
      /\ OutcomeOf(att[2]) # OutcomeOf(att[1])
      /\ rvs[i].promise = OutcomeOf(att[1])


\* =============================================================== carriers
\* The fn machine works on a world w = [heap, hlog]: the heap holds the
\* objects (carriers, promises, lazy wrappers, Fail markers), a value refers to
\* one by its index; hlog records every invocation of a wrapped handler.

\* ---- values
P(n) == [k |-> "plain", x |-> n]
Ref(i) == [k |-> "ref", x |-> i]
Undefined == [k |-> "undefined", x |-> 0]
\* what arithmetic yields on something that is not a number
NaNValue == [k |-> "NaN", x |-> 0]
True == [k |-> "bool", x |-> 1]
\* an instance of a FectError class: x is the tag
Tagged(t) == [k |-> "tagged", x |-> t]
\* a thrown value / a rejection reason
Cause(c) == [k |-> "cause", x |-> c]
\* the TypeError of Symbol.toPrimitive returning an object
TypeErrorCause == [k |-> "cause", x |-> 0]

\* { _tag: "PromiseRejected", cause } and { _tag: "UnknownException", cause }
defaultMapRejected(cause) == [k |-> "PromiseRejected", x |-> 0, cause |-> cause]
defaultMapThrown(cause) == [k |-> "UnknownException", x |-> 0, cause |-> cause]

\* the _tag of an error value ("" when it carries none)
TagOf(e) ==
  CASE e.k = "tagged" -> <<"tag", e.x>>
    [] e.k \in {"PromiseRejected", "UnknownException", "MappedRejected",
                "MappedThrown", "MappedDefect"} -> <<e.k, 0>>
    [] OTHER -> <<"", 0>>

\* ---- runtime checks
IsObj(w, v, kind) == v.k = "ref" /\ w.heap[v.x].kind = kind
isFect(w, v) == IsObj(w, v, "fect")
isFail(w, v) == IsObj(w, v, "fail")
isPromiseLike(w, v) == IsObj(w, v, "promise")
isFectLazy(w, v) == IsObj(w, v, "lazy")
\* a payload slot holds either a payload record or (the "lie") a promise
IsPayloadPromise(pl) == "k" \in DOMAIN pl

\* ---- effect records. A record is a function from the names it has.
EmptyFx == [key \in {} |-> True]
\* the metadata of an async result without the async flag
ResultOnlyFx == [result |-> True]
AsyncResultFx == [async |-> True, result |-> True]
ResultFx == [result |-> True]

\* mergeFxRuntime(a, b) = { ...a, ...b }
mergeFxRuntime(a, b) ==
  [key \in (DOMAIN a) \cup (DOMAIN b) |-> IF key \in DOMAIN b THEN b[key] ELSE a[key]]

\* ---- payloads and constructors
OkP(v) == [tag |-> "ok", value |-> v]
ErrP(e) == [tag |-> "err", error |-> e]

makeCore(payload, fx) == [kind |-> "fect", payload |-> payload, fx |-> fx]
makeCoreAsync(payload, fx) == [kind |-> "fect", payload |-> payload, fx |-> fx]
ok(value) == makeCore(OkP(value), EmptyFx)
err(error) == makeCore(ErrP(error), [result |-> error])
failMarker(error) == [kind |-> "fail", error |-> error]

\* ---- the world
Alloc(w, obj) == [w EXCEPT !.heap = Append(@, obj)]
NewRef(w) == Ref(Len(w.heap) + 1)
Ret(w, v) == [w |-> w, v |-> v, thr |-> FALSE]
Throw(w, c) == [w |-> w, v |-> c, thr |-> TRUE]

\* settleToPayload(raw): a payload, or the promise a pending carrier holds
settleToPayload(w, raw) ==
  IF isFail(w, raw) THEN ErrP(w.heap[raw.x].error)
  ELSE IF isFect(w, raw) THEN w.heap[raw.x].payload
  ELSE OkP(raw)

\* ---- promises
\* d is how the promise came to be: "source" (settled from outside), "native"
\* (settled when made), or a reaction on another promise.
PromiseObj(st, val, d) == [kind |-> "promise", st |-> st, val |-> val, d |-> d]
PendingPromise(d) == PromiseObj("pending", Undefined, d)
Settled(w, v) == w.heap[v.x].st # "pending"

\* ---- fn options (FnOptions) and the two mappers fn picks at wrap time
NoOpts == [mapRejected |-> FALSE, mapThrown |-> FALSE, mapDefect |-> FALSE]
\* a rejection mapped like a thrown value
mapRejectedAsThrown(f, cause) == defaultMapThrown(cause)

\* a selection that prefers the single mapDefect over the specific mapper
mapRejectedDefectFirst(f, cause) ==
  IF f.opts.mapDefect THEN [k |-> "MappedDefect", x |-> 0, cause |-> cause]
  ELSE IF f.opts.mapRejected THEN [k |-> "MappedRejected", x |-> 0, cause |-> cause]
  ELSE defaultMapRejected(cause)

\* options?.mapRejected ?? options?.mapDefect ?? defaultMapRejected
mapRejected(f, cause) ==
  IF f.opts.mapRejected THEN [k |-> "MappedRejected", x |-> 0, cause |-> cause]
  ELSE IF f.opts.mapDefect THEN [k |-> "MappedDefect", x |-> 0, cause |-> cause]
  ELSE defaultMapRejected(cause)
\* a thrown value mapped like a rejection
mapThrownAsRejection(f, cause) == defaultMapRejected(cause)

mapThrown(f, cause) ==
  IF f.opts.mapThrown THEN [k |-> "MappedThrown", x |-> 0, cause |-> cause]
  ELSE IF f.opts.mapDefect THEN [k |-> "MappedDefect", x |-> 0, cause |-> cause]
  ELSE defaultMapThrown(cause)


\* =================================================== lazy thunks, handlers, fn
\* A wrapped function: f = [id, h, opts]; h names what the handler does.
\*   first        (a, _b) => a                  reads no argument, returns the first
\*   add          (a, b) => a + b               coerces every argument to a number
\*   fail         () => SomeError.err()         returns a Fail marker
\*   throw        () => { throw cause }
\*   wrapOk       (a) => ok(a)                  returns a carrier
\*   retErr       () => err(SomeError.of())     returns an error carrier
\*   retLazy      () => lazy(() => 7)           returns a lazy wrapper
\*   asyncFirst / asyncFail / asyncWrapOk / asyncThrow: the same from an async
\*   function (a settled promise of the value, or a rejected one)
HandlerError(f) == Tagged(10 + f.id)
HandlerCause(f) == Cause(10 + f.id)
LazyResultValue == P(7)

\* A lazy wrapper (buildLazy): the thunk, the memo, and how often the thunk ran.
LazyObj(thunk) ==
  [kind |-> "lazy", thunk |-> thunk, hasValue |-> FALSE, cachedValue |-> Undefined,
   runs |-> 0]

RECURSIVE force(_, _), forceFectLazy(_, _), runThunk(_, _), evaluate(_, _, _)
RECURSIVE callHandler(_, _, _), sumArgs(_, _, _, _, _), toCoreInputs(_, _, _, _, _)

\* a force that marks the wrapper as forced also when the thunk threw
memoiseAlways(r, i) ==
  IF r.thr THEN Throw([r.w EXCEPT !.heap[i].hasValue = TRUE], r.v)
  ELSE Ret([r.w EXCEPT !.heap[i].hasValue = TRUE, !.heap[i].cachedValue = r.v], r.v)

\* cachedValue = <what thunk() returned>; hasValue = true: skipped when the
\* thunk threw (r is the outcome of the thunk)
memoise(r, i) ==
  IF r.thr THEN r
  ELSE Ret([r.w EXCEPT !.heap[i].hasValue = TRUE, !.heap[i].cachedValue = r.v], r.v)

\* wrapper.force(): if (!hasValue) { cachedValue = thunk(); hasValue = true }
force(w, i) ==
  IF w.heap[i].hasValue THEN Ret(w, w.heap[i].cachedValue)
  ELSE memoise(runThunk([w EXCEPT !.heap[i].runs = @ + 1], w.heap[i].thunk), i)

\* a forcing that stops after one level, whatever it finds there
forceOneLevel(w, v) == IF isFectLazy(w, v) THEN force(w, v.x) ELSE Ret(w, v)

\* forceFectLazy applied to the outcome r of a step that may have thrown
forceResult(r) == IF r.thr THEN r ELSE forceFectLazy(r.w, r.v)

\* forceFectLazy(input): force until the value is no lazy wrapper
forceFectLazy(w, v) ==
  IF isFectLazy(w, v) THEN forceResult(force(w, v.x)) ELSE Ret(w, v)

\* The thunks: a constant, a throw, another lazy wrapper, and the thunk fn
\* builds for a call with a lazy argument: () => forceFectLazy(evaluate(...inputs)).
runThunk(w, th) ==
  CASE th.t = "const" -> Ret(w, th.v)
    [] th.t = "throw" -> Throw(w, th.c)
    [] th.t = "inner" -> Ret(w, th.v)
    [] th.t = "eval" -> forceResult(evaluate(w, th.f, th.inputs))

\* what [Symbol.toPrimitive] hands back must be a primitive: an object is a
\* TypeError
primitiveOf(r) ==
  IF r.thr THEN r
  ELSE IF r.v.k = "ref" THEN Throw(r.w, TypeErrorCause)
  ELSE r

\* [Symbol.toPrimitive] / valueOf of a lazy wrapper force it fully. A plain
\* number is itself; anything else makes the sum NaN.
toPrimitive(w, v) ==
  IF isFectLazy(w, v) THEN primitiveOf(forceResult(force(w, v.x)))
  ELSE IF v.k = "plain" THEN Ret(w, v) ELSE Ret(w, NaNValue)

\* a + b + ...: r is the outcome of coercing args[n]
sumNext(r, args, n, acc, nan) ==
  IF r.thr THEN r
  ELSE IF r.v.k = "plain" THEN sumArgs(r.w, args, n + 1, acc + r.v.x, nan)
  ELSE sumArgs(r.w, args, n + 1, acc, TRUE)

sumArgs(w, args, n, acc, nan) ==
  IF n > Len(args) THEN Ret(w, IF nan \/ Len(args) = 0 THEN NaNValue ELSE P(acc))
  ELSE sumNext(toPrimitive(w, args[n]), args, n, acc, nan)

Arg1(args) == IF Len(args) >= 1 THEN args[1] ELSE Undefined
NativePromise(st, val) == PromiseObj(st, val, [d |-> "native"])

\* handler(...args): the invocation is recorded, then the body runs.
callHandler(w0, f, args) ==
  LET w == [w0 EXCEPT !.hlog = Append(@, [f |-> f.id, args |-> args])] IN
  CASE f.h = "first" -> Ret(w, Arg1(args))
    [] f.h = "add" -> sumArgs(w, args, 1, 0, FALSE)
    [] f.h = "fail" -> Ret(Alloc(w, failMarker(HandlerError(f))), NewRef(w))
    [] f.h = "throw" -> Throw(w, HandlerCause(f))
    [] f.h = "wrapOk" -> Ret(Alloc(w, ok(Arg1(args))), NewRef(w))
    [] f.h = "retErr" -> Ret(Alloc(w, err(HandlerError(f))), NewRef(w))
    [] f.h = "retLazy" ->
         Ret(Alloc(w, LazyObj([t |-> "const", v |-> LazyResultValue])), NewRef(w))
    [] f.h = "asyncFirst" ->
         Ret(Alloc(w, NativePromise("fulfilled", Arg1(args))), NewRef(w))
    [] f.h = "asyncFail" ->
         LET w1 == Alloc(w, failMarker(HandlerError(f))) IN
           Ret(Alloc(w1, NativePromise("fulfilled", NewRef(w))), NewRef(w1))
    [] f.h = "asyncWrapOk" ->
         LET w1 == Alloc(w, ok(Arg1(args))) IN
           Ret(Alloc(w1, NativePromise("fulfilled", NewRef(w))), NewRef(w1))
    [] f.h = "asyncThrow" ->
         Ret(Alloc(w, NativePromise("rejected", HandlerCause(f))), NewRef(w))


\* toCoreInput(input) for every input, in order: a carrier passes through, an
\* async source becomes a pending carrier on the promise
\* Promise.resolve(input).then(ok, cause => err(mapRejected(cause))), anything
\* else becomes ok(input). Only the promise is a new object that lives on.
toCoreInputs(w, f, inputs, n, cores) ==
  IF n > Len(inputs) THEN [w |-> w, cores |-> cores]
  ELSE LET input == inputs[n] IN
    IF isFect(w, input)
      THEN toCoreInputs(w, f, inputs, n + 1, Append(cores, w.heap[input.x]))
    ELSE IF isPromiseLike(w, input)
      THEN toCoreInputs(
             Alloc(w, PendingPromise([d |-> "toCore", src |-> input, f |-> f])),
             f, inputs, n + 1,
             Append(cores, makeCoreAsync(NewRef(w), AsyncResultFx)))
    ELSE toCoreInputs(w, f, inputs, n + 1, Append(cores, ok(input)))

RECURSIVE MergeAll(_, _, _)
\* inCores.reduce((acc, core) => mergeFxRuntime(acc, core.fx), {})
MergeAll(cores, n, acc) ==
  IF n > Len(cores) THEN acc ELSE MergeAll(cores, n + 1, mergeFxRuntime(acc, cores[n].fx))

\* a call that always takes the infected path
infectedAlways(w, inputs) == TRUE

\* inputs.some(input => isFect(input) || isPromiseLike(input))
infectedCall(w, inputs) ==
  \E n \in 1..Len(inputs) : isFect(w, inputs[n]) \/ isPromiseLike(w, inputs[n])

\* a scan that looks at the first payload only
firstErrHeadOnly(payloads) ==
  IF Len(payloads) >= 1 /\ payloads[1].tag = "err" THEN 1 ELSE 0

\* resolvedInputs.find(p => p.tag === "err") taking the last match
lastErr(payloads) ==
  LET errs == {n \in 1..Len(payloads) : payloads[n].tag = "err"} IN
    IF errs = {} THEN 0 ELSE CHOOSE n \in errs : \A m \in errs : m <= n

\* a scan in completion order: among the error payloads, the one of the input
\* that settled first (inputs that were never pending count as settled at 0)
firstErrBySettlement(payloads) ==
  LET errs == {n \in 1..Len(payloads) : payloads[n].tag = "err"}
      at(n) ==
        IF calls # <<>> /\ n <= Len(calls[1].inputs) /\ calls[1].inputs[n].k = "ref"
             /\ \E k \in 1..Len(slog) : slog[k] = calls[1].inputs[n].x
          THEN CHOOSE k \in 1..Len(slog) : slog[k] = calls[1].inputs[n].x
          ELSE 0
  IN
    IF errs = {} THEN 0
    ELSE CHOOSE n \in errs :
           \A m \in errs : at(n) < at(m) \/ (at(n) = at(m) /\ n <= m)

\* resolvedInputs.find(p => p.tag === "err"): the position of the first error
\* payload, 0 when there is none
firstErr(payloads) ==
  LET errs == {n \in 1..Len(payloads) : payloads[n].tag = "err"} IN
    IF errs = {} THEN 0 ELSE CHOOSE n \in errs : \A m \in errs : n <= m

\* the values in reverse position order
ValuesOfReversed(payloads) ==
  [n \in 1..Len(payloads) |->
     LET p == payloads[Len(payloads) + 1 - n] IN
       IF p.tag = "ok" THEN p.value ELSE Undefined]

\* resolvedInputs.map(p => p.value): an error payload has no value field
ValuesOf(payloads) ==
  [n \in 1..Len(payloads) |->
     IF payloads[n].tag = "ok" THEN payloads[n].value ELSE Undefined]

\* makeCore / makeCoreAsync as a new heap object, returned by reference
RetCore(w, core) == Ret(Alloc(w, core), NewRef(w))

\* the promise Promise.resolve(outRaw).then(settleToPayload, cause => err(mapRejected(cause)))
SettlePromise(outRaw, f) == PendingPromise([d |-> "settle", src |-> outRaw, f |-> f])

\* the fully synchronous infected path after handler(...values): r is the
\* outcome of the handler (try / catch, then the checks on outRaw)
syncOutcome(r, f, mergedInFx) ==
  IF r.thr
    THEN RetCore(r.w, makeCore(ErrP(mapThrown(f, r.v)),
                               mergeFxRuntime(mergedInFx, ResultFx)))
  ELSE IF isPromiseLike(r.w, r.v)
    THEN RetCore(Alloc(r.w, SettlePromise(r.v, f)),
                 makeCoreAsync(NewRef(r.w), mergeFxRuntime(mergedInFx, AsyncResultFx)))
  ELSE IF isFectLazy(r.w, r.v) THEN forceFectLazy(r.w, r.v)
  ELSE IF isFail(r.w, r.v)
    THEN RetCore(r.w, makeCore(err(r.w.heap[r.v.x].error).payload,
                               mergeFxRuntime(mergedInFx,
                                              err(r.w.heap[r.v.x].error).fx)))
  ELSE IF isFect(r.w, r.v)
    THEN RetCore(r.w, makeCore(r.w.heap[r.v.x].payload,
                               mergeFxRuntime(mergedInFx, r.w.heap[r.v.x].fx)))
  ELSE RetCore(r.w, makeCore(OkP(r.v), mergedInFx))

\* the fully synchronous infected path, from the firstErr scan on
evaluateSync(w, f, inPayloads, mergedInFx) ==
  IF firstErr(inPayloads) # 0
    THEN RetCore(w, makeCore(inPayloads[firstErr(inPayloads)], mergedInFx))
    ELSE syncOutcome(callHandler(w, f, ValuesOf(inPayloads)), f, mergedInFx)

\* the plain call path after handler(...inputs): r is the outcome of the handler
plainOutcome(r, f) ==
  IF r.thr THEN r
  ELSE IF isPromiseLike(r.w, r.v)
    THEN RetCore(Alloc(r.w, SettlePromise(r.v, f)),
                 makeCoreAsync(NewRef(r.w), AsyncResultFx))
  ELSE IF isFail(r.w, r.v) THEN RetCore(r.w, err(r.w.heap[r.v.x].error))
  ELSE r

\* the infected path: ci holds the carriers toCoreInput made of the inputs
evaluateInfected(ci, f, n) ==
  LET mergedInFx == MergeAll(ci.cores, 1, EmptyFx)
      inPayloads == [m \in 1..n |-> ci.cores[m].payload]
  IN
  IF \E m \in 1..n : IsPayloadPromise(inPayloads[m])
    THEN \* async infected input(s): the join settles the payload later
      RetCore(Alloc(ci.w, PendingPromise([d |-> "join", ins |-> inPayloads, f |-> f])),
              makeCoreAsync(NewRef(ci.w), mergedInFx))
    ELSE evaluateSync(ci.w, f, inPayloads, mergedInFx)

\* evaluate(...inputs)
evaluate(w, f, inputs) ==
  IF ~infectedCall(w, inputs)
    THEN \* plain call path: keep plain outputs plain
      plainOutcome(callHandler(w, f, inputs), f)
    ELSE evaluateInfected(toCoreInputs(w, f, inputs, 1, <<>>), f, Len(inputs))

\* wrapped that never defers
wrappedEager(w, f, inputs) == evaluate(w, f, inputs)

RECURSIVE forceInputs(_, _, _)
forceInputsNext(r, inputs, n) == IF r.thr THEN r ELSE forceInputs(r.w, inputs, n + 1)
forceInputs(w, inputs, n) ==
  IF n > Len(inputs) THEN Ret(w, Undefined)
  ELSE forceInputsNext(forceFectLazy(w, inputs[n]), inputs, n)
deferAfter(r, f, inputs) ==
  IF r.thr THEN r
  ELSE Ret(Alloc(r.w, LazyObj([t |-> "eval", f |-> f, inputs |-> inputs])), NewRef(r.w))

\* wrapped that forces its lazy arguments before it defers
wrappedForcing(w, f, inputs) ==
  IF \E n \in 1..Len(inputs) : isFectLazy(w, inputs[n])
    THEN deferAfter(forceInputs(w, inputs, 1), f, inputs)
    ELSE evaluate(w, f, inputs)

\* wrapped(...inputs): a lazy argument defers the whole evaluate step
wrapped(w, f, inputs) ==
  IF \E n \in 1..Len(inputs) : isFectLazy(w, inputs[n])
    THEN Ret(Alloc(w, LazyObj([t |-> "eval", f |-> f, inputs |-> inputs])), NewRef(w))
    ELSE evaluate(w, f, inputs)


\* ------------------------------------------------------- promise reactions
\* A reaction is ready when the promise(s) it waits for are settled.
\* inputs awaited one after the other: the reaction on an input runs only
\* after the reactions on all inputs before it
readySequential(w, i) ==
  LET o == w.heap[i] IN
    /\ o.kind = "promise"
    /\ o.st = "pending"
    /\ CASE o.d.d = "toCore" ->
              /\ Settled(w, o.d.src)
              /\ \A j \in 1..(i - 1) :
                   (w.heap[j].kind = "promise" /\ w.heap[j].d.d = "toCore")
                     => w.heap[j].st # "pending"
         [] o.d.d \in {"settle", "follow", "try", "match", "partial"} ->
              Settled(w, o.d.src)
         [] o.d.d = "join" ->
              \A n \in 1..Len(o.d.ins) :
                IsPayloadPromise(o.d.ins[n]) => Settled(w, o.d.ins[n])
         [] OTHER -> FALSE

\* a join that goes on as soon as its first pending input has settled
readyOnFirstInput(w, i) ==
  LET o == w.heap[i] IN
    /\ o.kind = "promise"
    /\ o.st = "pending"
    /\ CASE o.d.d \in {"toCore", "settle", "follow", "try", "match", "partial"} ->
              Settled(w, o.d.src)
         [] o.d.d = "join" ->
              \E n \in 1..Len(o.d.ins) :
                /\ IsPayloadPromise(o.d.ins[n]) /\ Settled(w, o.d.ins[n])
                /\ \A m \in 1..(n - 1) : ~IsPayloadPromise(o.d.ins[m])
         [] OTHER -> FALSE

\* The reaction of promise i can run: the promise it hangs on has settled; the
\* join (Promise.all over every input payload) needs all of them settled.
Ready(w, i) ==
  LET o == w.heap[i] IN
    /\ o.kind = "promise"
    /\ o.st = "pending"
    /\ CASE o.d.d \in {"toCore", "settle", "follow", "try", "match", "partial"} ->
              Settled(w, o.d.src)
         [] o.d.d = "join" ->
              \A n \in 1..Len(o.d.ins) :
                IsPayloadPromise(o.d.ins[n]) => Settled(w, o.d.ins[n])
         [] OTHER -> FALSE

Fulfill(w, i, val) == [w EXCEPT !.heap[i].st = "fulfilled", !.heap[i].val = val]
Reject(w, i, cause) == [w EXCEPT !.heap[i].st = "rejected", !.heap[i].val = cause]
\* a callback returned a promise: the derived promise takes its outcome
Follow(w, i, src) == [w EXCEPT !.heap[i].d = [d |-> "follow", src |-> src]]
\* resolve promise i with what settleToPayload gave
ResolveWith(w, i, pl) == IF IsPayloadPromise(pl) THEN Follow(w, i, pl) ELSE Fulfill(w, i, pl)

\* Promise.resolve(payload).then(resolved => resolved, cause => err(mapRejected(cause)))
\* for every input payload of the join
resolvedInputs(w, f, ins) ==
  [n \in 1..Len(ins) |->
     IF IsPayloadPromise(ins[n])
       THEN LET p == w.heap[ins[n].x] IN
              IF p.st = "fulfilled" THEN p.val ELSE ErrP(mapRejected(f, p.val))
       ELSE ins[n]]

\* return settleToPayload(forceFectLazy(outRaw)) in the join callback: r is the
\* outcome of the forcing, which no try guards
settleForced(r, i) ==
  IF r.thr THEN Reject(r.w, i, r.v)
  ELSE ResolveWith(r.w, i, settleToPayload(r.w, r.v))

\* the join callback after handler(...values): r is the outcome of the handler
joinOutcome(r, i, f) ==
  IF r.thr THEN Fulfill(r.w, i, ErrP(mapThrown(f, r.v)))
  ELSE IF isPromiseLike(r.w, r.v)
    THEN [r.w EXCEPT !.heap[i].d = [d |-> "settle", src |-> r.v, f |-> f]]
  ELSE IF isFectLazy(r.w, r.v) THEN settleForced(forceFectLazy(r.w, r.v), i)
  ELSE ResolveWith(r.w, i, settleToPayload(r.w, r.v))

\* the callback of Promise.all(...).then(resolvedInputs => ...) in evaluate
joinCallback(w, i, f, resolved) ==
  IF firstErr(resolved) # 0 THEN Fulfill(w, i, resolved[firstErr(resolved)])
  ELSE joinOutcome(callHandler(w, f, ValuesOf(resolved)), i, f)

\* ---- match and partial
\* The handlers a discharge is given: hs = [err, tags]. The ok handler is
\* always there; err is "fn" (one function for every error), "byTag" (an
\* object keyed by _tag, holding a handler for each tag in hs.tags) or "none".
\* The handlers are told apart in hlog by these ids.
OkHandler == 200
ErrFunction == 201
TagHandler == 202
\* new Error("Missing error handler")
MissingErrorHandler == [k |-> "Error", x |-> 0, message |-> "Missing error handler"]
\* what the handler with this id returns for v
Handled(id, v) == [k |-> "handled", x |-> id, of |-> v]
callMatchHandler(w, id, v) ==
  Ret([w EXCEPT !.hlog = Append(@, [f |-> id, args |-> <<v>>])], Handled(id, v))
\* typeof error === "object" && typeof error._tag === "string"
hasTag(e) == TagOf(e)[1] # ""

\* a dispatch that knows handlers keyed by tag only
dispatchByTagOnly(w, payload, hs) ==
  IF payload.tag = "ok" THEN callMatchHandler(w, OkHandler, payload.value)
  ELSE IF hs.err = "byTag" /\ TagOf(payload.error) \in hs.tags
    THEN callMatchHandler(w, TagHandler, payload.error)
  ELSE Throw(w, MissingErrorHandler)

\* dispatchFectPayload(payload, handlers)
dispatchFectPayload(w, payload, hs) ==
  IF payload.tag = "ok" THEN callMatchHandler(w, OkHandler, payload.value)
  ELSE IF hs.err = "fn" THEN callMatchHandler(w, ErrFunction, payload.error)
  ELSE IF hs.err = "byTag" /\ TagOf(payload.error) \in hs.tags
    THEN callMatchHandler(w, TagHandler, payload.error)
  ELSE Throw(w, MissingErrorHandler)

\* a match that does not wait for a pending payload: it calls the ok handler at
\* once
matchEager(r, hs) ==
  IF r.thr THEN r
  ELSE IF IsPayloadPromise(r.w.heap[r.v.x].payload)
    THEN callMatchHandler(r.w, OkHandler, Undefined)
  ELSE dispatchFectPayload(r.w, r.w.heap[r.v.x].payload, hs)

\* match(input).with(handlers) after the input is forced: r is the outcome of
\* the forcing, a carrier
matchResolved(r, hs) ==
  IF r.thr THEN r
  ELSE IF IsPayloadPromise(r.w.heap[r.v.x].payload)
    THEN Ret(Alloc(r.w, PendingPromise([d |-> "match", src |-> r.w.heap[r.v.x].payload,
                                        hs |-> hs])),
             NewRef(r.w))
  ELSE dispatchFectPayload(r.w, r.w.heap[r.v.x].payload, hs)

\* const resolvedInput = isFectLazy(input) ? forceFectLazy(input) : input
resolveInput(w, input) ==
  IF isFectLazy(w, input) THEN forceFectLazy(w, input) ELSE Ret(w, input)

\* match(input).with(handlers), for an input that is (or forces to) a carrier
matchFect(w, input, hs) == matchResolved(resolveInput(w, input), hs)

\* .then(resolved => dispatchFectPayload(resolved, handlers)): r is the
\* outcome of the dispatch and settles promise i
matchSettle(r, i) == IF r.thr THEN Reject(r.w, i, r.v) ELSE Fulfill(r.w, i, r.v)

\* the handled payload: r is the outcome of the selected handler
handledPayload(r) == Ret(r.w, OkP(r.v))

\* a partial discharge that handles every tagged error, selected or not
partiallyHandleAnyTag(w, payload, tags) ==
  IF payload.tag = "ok" THEN Ret(w, payload)
  ELSE IF hasTag(payload.error)
    THEN handledPayload(callMatchHandler(w, TagHandler, payload.error))
  ELSE Ret(w, payload)

\* partiallyHandlePayload(payload, handlers), the handlers being those for tags
partiallyHandlePayload(w, payload, tags) ==
  IF payload.tag = "ok" THEN Ret(w, payload)
  ELSE IF hasTag(payload.error) /\ TagOf(payload.error) \in tags
    THEN handledPayload(callMatchHandler(w, TagHandler, payload.error))
  ELSE Ret(w, payload)

\* makeCore(partiallyHandlePayload(payload, errHandlers), resolvedInput.fx)
partialSync(p, fx) == RetCore(p.w, makeCore(p.v, fx))
\* makeCoreAsync(Promise.resolve(payload).then(...), resolvedInput.fx)
partialAsync(w, payload, tags, fx) ==
  RetCore(Alloc(w, PendingPromise([d |-> "partial", src |-> payload, tags |-> tags])),
          makeCoreAsync(NewRef(w), fx))

\* partial(input).with({ err: handlers }) after the input is forced
partialResolved(r, tags) ==
  IF r.thr THEN r
  ELSE IF IsPayloadPromise(r.w.heap[r.v.x].payload)
    THEN partialAsync(r.w, r.w.heap[r.v.x].payload, tags, r.w.heap[r.v.x].fx)
  ELSE partialSync(partiallyHandlePayload(r.w, r.w.heap[r.v.x].payload, tags),
                   r.w.heap[r.v.x].fx)

\* partial(input).with({ err: handlers })
partial(w, input, tags) == partialResolved(resolveInput(w, input), tags)

\* .then(resolved => partiallyHandlePayload(resolved, errHandlers)): p settles
\* promise i
partialSettle(p, i) == Fulfill(p.w, i, p.v)

RunReaction(w, i) ==
  LET o == w.heap[i]
      d == o.d
  IN
  CASE d.d = "toCore" ->
         LET src == w.heap[d.src.x] IN
           IF src.st = "fulfilled" THEN Fulfill(w, i, OkP(src.val))
           ELSE Fulfill(w, i, ErrP(mapRejected(d.f, src.val)))
    [] d.d = "settle" ->
         LET src == w.heap[d.src.x] IN
           IF src.st = "fulfilled" THEN ResolveWith(w, i, settleToPayload(w, src.val))
           ELSE Fulfill(w, i, ErrP(mapRejected(d.f, src.val)))
    [] d.d = "follow" ->
         LET src == w.heap[d.src.x] IN
           [w EXCEPT !.heap[i].st = src.st, !.heap[i].val = src.val]
    [] d.d = "try" ->
         LET src == w.heap[d.src.x] IN
           IF src.st = "rejected" THEN Reject(w, i, src.val)
           ELSE IF src.val.tag = "err" THEN Reject(w, i, src.val.error)
           ELSE Fulfill(w, i, src.val.value)
    [] d.d = "join" -> joinCallback(w, i, d.f, resolvedInputs(w, d.f, d.ins))
    [] d.d = "match" ->
         LET src == w.heap[d.src.x] IN
           IF src.st = "rejected" THEN Reject(w, i, src.val)
           ELSE matchSettle(dispatchFectPayload(w, src.val, d.hs), i)
    [] d.d = "partial" ->
         LET src == w.heap[d.src.x] IN
           IF src.st = "rejected" THEN Reject(w, i, src.val)
           ELSE partialSettle(partiallyHandlePayload(w, src.val, d.tags), i)

ReadySet(w) == {i \in 1..Len(w.heap) : Ready(w, i)}

RECURSIVE drain(_)
\* the microtask checkpoint: run reactions until none is ready
drain(w) ==
  IF ReadySet(w) = {} THEN w
  ELSE drain(RunReaction(w, CHOOSE i \in ReadySet(w) : \A j \in ReadySet(w) : i <= j))

\* an extraction that hands the error back instead of throwing it
tryReturnsError(r) ==
  IF r.thr THEN r
  ELSE IF ~isFect(r.w, r.v) THEN r
  ELSE IF IsPayloadPromise(r.w.heap[r.v.x].payload)
    THEN Ret(Alloc(r.w, PendingPromise([d |-> "try", src |-> r.w.heap[r.v.x].payload])),
             NewRef(r.w))
  ELSE IF r.w.heap[r.v.x].payload.tag = "err"
    THEN Ret(r.w, r.w.heap[r.v.x].payload.error)
  ELSE Ret(r.w, r.w.heap[r.v.x].payload.value)

\* tryFect after the input is forced: r is the outcome of the forcing
tryResolved(r) ==
  IF r.thr THEN r
  ELSE IF ~isFect(r.w, r.v) THEN r
  ELSE IF IsPayloadPromise(r.w.heap[r.v.x].payload)
    THEN Ret(Alloc(r.w, PendingPromise([d |-> "try", src |-> r.w.heap[r.v.x].payload])),
             NewRef(r.w))
  ELSE IF r.w.heap[r.v.x].payload.tag = "err"
    THEN Throw(r.w, r.w.heap[r.v.x].payload.error)
  ELSE Ret(r.w, r.w.heap[r.v.x].payload.value)

\* tryFect(input)
tryFect(w, input) ==
  tryResolved(IF isFectLazy(w, input) THEN forceFectLazy(w, input) ELSE Ret(w, input))


\* ------------------------------------------------------------ the caller
\* What the caller passes at argument position n of a call:
\*   plain      the number n               ok         ok(n)
\*   err        err(new En())              src        a pending promise
\*   errRaw     err(n), an error without a _tag
\*   lazy       lazy(() => n)              lazyThrow  lazy(() => { throw })
\*   pend       fn(x => x)(promise): a carrier with a pending payload
\*   pendFail   fn(() => En.err())(promise): one that settles to a domain error
\*   prev       the value an earlier call returned
\*   nest       j lazy wrappers nested around the number n
\*   nestOk     j lazy wrappers nested around ok(n)
\*   rv         the RemoteValue j, a thenable: the promise stands for what
\*              Promise.resolve(rv) adopts through rv.then
FreshKinds == {"plain", "ok", "err", "src", "lazy", "lazyThrow", "pend", "pendFail"}
Handlers ==
  {"first", "add", "fail", "throw", "wrapOk", "retErr", "retLazy",
   "asyncFirst", "asyncFail", "asyncWrapOk", "asyncThrow"}
\* every combination of the three optional mappers of FnOptions
OptChoices == [mapRejected : BOOLEAN, mapThrown : BOOLEAN, mapDefect : BOOLEAN]

ArgChoices == [c : FreshKinds, j : {0}]
PrevChoice(j) == [c |-> "prev", j |-> j]

RECURSIVE SeqsUpTo(_, _)
SeqsUpTo(S, n) ==
  IF n = 0 THEN {<<>>}
  ELSE LET shorter == SeqsUpTo(S, n - 1) IN
         shorter \cup {Append(sq, x) : sq \in {t \in shorter : Len(t) = n - 1}, x \in S}

World == [heap |-> heap, hlog |-> hlog]

\* the wrapped functions behind the pend / pendFail arguments at position n
Lift(n) == [id |-> 100 + n, h |-> "first", opts |-> NoOpts]
LiftFail(n) == [id |-> 100 + n, h |-> "fail", opts |-> NoOpts]

\* one more wrapper around the value r.v
nestOne(r) == [w |-> Alloc(r.w, LazyObj([t |-> "inner", v |-> r.v])), v |-> NewRef(r.w)]

RECURSIVE Nest(_, _, _)
\* lazy(() => lazy(() => ... lazy(() => bottom))), depth wrappers deep: the
\* innermost is built first, r.v is the outermost
Nest(w, depth, bottom) ==
  IF depth = 0 THEN [w |-> w, v |-> bottom]
  ELSE nestOne(Nest(w, depth - 1, bottom))

RECURSIVE BuildArgs(_, _, _, _)
\* the argument at position n is the nest r
nestedArg(r, choices, n, args) == BuildArgs(r.w, choices, n + 1, Append(args, r.v))
\* the argument at position n is what the helper call r returned
liftedArg(r, choices, n, args) == BuildArgs(r.w, choices, n + 1, Append(args, r.v))

BuildArgs(w, choices, n, args) ==
  IF n > Len(choices) THEN [w |-> w, args |-> args]
  ELSE LET c == choices[n].c
           new(obj) == BuildArgs(Alloc(w, obj), choices, n + 1, Append(args, NewRef(w)))
       IN
       CASE c = "plain" -> BuildArgs(w, choices, n + 1, Append(args, P(n)))
         [] c = "prev" -> BuildArgs(w, choices, n + 1, Append(args, calls[choices[n].j].ret))
         [] c \in {"ok", "err", "errRaw", "src", "rv", "lazy", "lazyThrow"} ->
              new(CASE c = "ok" -> ok(P(n))
                    [] c = "rv" -> PendingPromise([d |-> "remote", rv |-> choices[n].j])
                    [] c = "err" -> err(Tagged(n))
                    [] c = "errRaw" -> err(P(n))
                    [] c = "src" -> PendingPromise([d |-> "source"])
                    [] c = "lazy" -> LazyObj([t |-> "const", v |-> P(n)])
                    [] c = "lazyThrow" -> LazyObj([t |-> "throw", c |-> Cause(n)]))
         [] c = "nest" -> nestedArg(Nest(w, choices[n].j, P(n)), choices, n, args)
         [] c = "nestOk" ->
              nestedArg(Nest(Alloc(w, ok(P(n))), choices[n].j, NewRef(w)), choices, n, args)
         [] c \in {"pend", "pendFail"} ->
              liftedArg(evaluate(Alloc(w, PendingPromise([d |-> "source"])),
                                 IF c = "pend" THEN Lift(n) ELSE LiftFail(n),
                                 <<NewRef(w)>>),
                        choices, n, args)

\* const out = fn(handler, opts)(...args)
Call(h, opts, choices) ==
  /\ \E b \in {BuildArgs(World, choices, 1, <<>>)} :
       \E f \in {[id |-> Len(calls) + 1, h |-> h, opts |-> opts]} :
         \E r \in {wrapped(b.w, f, b.args)} :
           /\ heap' = r.w.heap
           /\ hlog' = r.w.hlog
           /\ calls' = Append(calls, [f |-> f, inputs |-> b.args, ret |-> r.v,
                                      thr |-> r.thr])
  /\ UNCHANGED <<ops, slog, rvVars, algVars>>

\* An async source settles: it resolves with a number, resolves with a
\* carrier, or rejects.
SettleSource(i, how) ==
  /\ heap[i].kind = "promise" /\ heap[i].st = "pending" /\ heap[i].d.d = "source"
  /\ CASE how = "value" -> heap' = Fulfill(World, i, P(i)).heap
       [] how = "carrier" ->
            heap' = Fulfill(Alloc(World, ok(P(i))), i, NewRef(World)).heap
       [] how = "reject" -> heap' = Reject(World, i, Cause(i)).heap
  /\ slog' = Append(slog, i)
  /\ UNCHANGED <<hlog, calls, ops, rvVars, algVars>>

\* the microtask checkpoint at the end of the caller's task
Drain ==
  /\ ReadySet(World) # {}
  /\ \E w \in {drain(World)} : heap' = w.heap /\ hlog' = w.hlog
  /\ UNCHANGED <<calls, ops, slog, rvVars, algVars>>

\* The caller forces a lazy wrapper it holds: force() runs one level,
\* "coerce" (valueOf / toString / Symbol.toPrimitive, and the forcing match and
\* partial start with) forces fully; or it extracts with try.
CallerOp(op, v) ==
  /\ Len(ops) < MaxOps
  /\ op \in {"force", "coerce"} => isFectLazy(World, v)
  /\ \E r \in {CASE op = "force" -> force(World, v.x)
                 [] op = "coerce" -> forceFectLazy(World, v)
                 [] op = "try" -> tryFect(World, v)} :
       /\ heap' = r.w.heap
       /\ hlog' = r.w.hlog
       /\ ops' = Append(ops, [op |-> op, input |-> v, ret |-> r.v, thr |-> r.thr])
  /\ UNCHANGED <<calls, slog, rvVars, algVars>>

\* on what a call returned
ResultOps ==
  \E c \in 1..Len(calls), op \in {"force", "coerce", "try"} :
    ~calls[c].thr /\ CallerOp(op, calls[c].ret)

\* on a lazy wrapper the caller passed as an argument
InputOps ==
  \E c \in 1..Len(calls), op \in {"force", "coerce"} :
    \E n \in 1..Len(calls[c].inputs) : CallerOp(op, calls[c].inputs[n])

\* one call of a wrapped function, with arguments of every kind
FnNext ==
  \/ \E h \in Handlers, ch \in SeqsUpTo(ArgChoices, MaxArgs) :
       calls = <<>> /\ Call(h, NoOpts, ch)
  \/ \E i \in 1..Len(heap), how \in {"value", "carrier", "reject"} : SettleSource(i, how)
  \/ Drain
  \/ ResultOps
  \/ InputOps

SpecFn == Init /\ [][FnNext]_vars

\* a chain g(f(x, ...)): the first call may take further, lazy, arguments;
\* every later call takes the previous result
ExtraChoices == [c : {"lazy"}, j : {0}]
\* the handlers composed in a chain
ChainHandlers == {"first", "add", "fail", "throw", "wrapOk", "asyncFirst", "asyncWrapOk"}
ChainNext ==
  \/ \E h \in ChainHandlers, ch \in ArgChoices, more \in SeqsUpTo(ExtraChoices, MaxArgs - 1) :
       calls = <<>> /\ Call(h, NoOpts, <<ch>> \o more)
  \/ \E h \in ChainHandlers :
       /\ calls # <<>> /\ Len(calls) < MaxChain /\ ~calls[Len(calls)].thr
       /\ Call(h, NoOpts, <<PrevChoice(Len(calls))>>)
  \/ \E i \in 1..Len(heap), how \in {"value", "carrier", "reject"} : SettleSource(i, how)
  \/ Drain
  \/ ResultOps

SpecChain == Init /\ [][ChainNext]_vars

\* one one-argument call of fn(handler, options), with every choice of options
OptNext ==
  \/ \E h \in Handlers, o \in OptChoices, ch \in ArgChoices :
       calls = <<>> /\ Call(h, o, <<ch>>)
  \/ \E i \in 1..Len(heap), how \in {"value", "carrier", "reject"} : SettleSource(i, how)
  \/ Drain
  \/ ResultOps

SpecOpts == Init /\ [][OptNext]_vars

\* ---- an infected call with several inputs, pending ones among them
JoinKinds == {"plain", "err", "src", "pend", "pendFail"}
JoinChoices == [c : JoinKinds, j : {0}]
JoinHandlers == {"first", "add", "fail", "throw", "asyncFirst", "asyncThrow"}
JoinNext ==
  \/ \E h \in JoinHandlers, ch \in SeqsUpTo(JoinChoices, MaxArgs) :
       calls = <<>> /\ ch # <<>> /\ Call(h, NoOpts, ch)
  \/ \E i \in 1..Len(heap), how \in {"value", "carrier", "reject"} : SettleSource(i, how)
  \/ Drain
SpecJoin == Init /\ [][JoinNext]_vars
\* Every async source settles at some time (the premise of the join claims),
\* and the event loop runs every queued reaction: weak fairness of Drain,
\* written as in CheckpointFairness.
JoinFairness ==
  /\ WF_vars(\E i \in 1..Len(heap), how \in {"value", "carrier", "reject"} :
               SettleSource(i, how))
  /\ []<>(ReadySet(World) = {})
SpecJoinFair == Init /\ [][JoinNext]_vars /\ JoinFairness

\* ---- a RemoteValue as the argument of a wrapped function
\* the rejection reason as the cause the reactions see
ReasonCause(why) == Cause(IF why = TimeoutReason THEN 90 ELSE 91)
\* a then() that passes fulfilment on and drops onrejected
thenFulfilledOnly(r) == IF r.promise.st = "rejected" THEN PendingSlot ELSE r.promise
\* then(onfulfilled, onrejected) { return this.promise.then(onfulfilled, onrejected) }:
\* the promise the reactions hang on
then(r) == r.promise
IsRemote(j, i) ==
  heap[j].kind = "promise" /\ heap[j].d = [d |-> "remote", rv |-> i]
\* the reaction registered through rv.then runs: the adopting promise takes
\* the outcome of the RemoteValue
RVDeliver(i, j) ==
  /\ IsRemote(j, i) /\ heap[j].st = "pending"
  /\ then(rvs[i]).st # "pending"
  /\ heap' = IF then(rvs[i]).st = "fulfilled"
               THEN Fulfill(World, j, P(then(rvs[i]).val)).heap
               ELSE Reject(World, j, ReasonCause(then(rvs[i]).why)).heap
  /\ slog' = Append(slog, j)
  /\ UNCHANGED <<hlog, calls, ops, rvVars, algVars>>
RemoteHandlers == {"first", "add", "throw", "fail"}
\* the argument of the one call: RemoteValue i
RemoteChoice(i) == [c |-> "rv", j |-> i]
\* const rv = remoteValue(options); const out = fn(handler)(rv), with fill,
\* fail and the timer at any moment before or after the call
RemoteNext ==
  \/ \E i \in RVIds, reg \in BOOLEAN, tm \in BOOLEAN : RVCreate(i, reg, tm)
  \/ \E h \in RemoteHandlers, i \in RVIds :
       calls = <<>> /\ rvs[i].created /\ Call(h, NoOpts, <<RemoteChoice(i)>>)
  \/ \E i \in RVIds, v \in FillVals : RVFill(i, v)
  \/ \E i \in RVIds, why \in Reasons : RVFail(i, why)
  \/ \E i \in RVIds : RVTimeout(i)
  \/ RVMicrotasks
  \/ \E i \in RVIds, j \in 1..Len(heap) : RVDeliver(i, j)
  \/ Drain
SpecRemote == Init /\ [][RemoteNext]_vars
\* The event loop runs timers and every queued reaction. Drain is enabled
\* exactly when a reaction is ready and leaves none ready, so weak fairness of
\* Drain, WF_vars(Drain), is the same condition as []<>Quiet; it is written in
\* the second form, which needs no evaluation of ENABLED Drain.
CheckpointFairness == []<>(ReadySet(World) = {})
RemoteFairness ==
  /\ RVFairness
  /\ WF_vars(\E i \in RVIds, j \in 1..Len(heap) : RVDeliver(i, j))
  /\ CheckpointFairness
SpecRemoteFair == Init /\ [][RemoteNext]_vars /\ RemoteFairness

\* ---- discharging what a call returned
\* the tags a handler object may hold: those of the errors E1 and E11
TagChoices == SUBSET {TagOf(Tagged(1)), TagOf(Tagged(11))}
MatchHandlerChoices ==
  {[err |-> "fn", tags |-> {}], [err |-> "none", tags |-> {}]}
    \cup {[err |-> "byTag", tags |-> tags] : tags \in TagChoices}

\* match(v).with({ ok, err }) on a carrier or a lazy wrapper of one
MatchOp(v, hs) ==
  /\ Len(ops) < MaxOps
  /\ \E r \in {resolveInput(World, v)} : r.thr \/ isFect(r.w, r.v)
  /\ \E r \in {matchFect(World, v, hs)} :
       /\ heap' = r.w.heap
       /\ hlog' = r.w.hlog
       /\ ops' = Append(ops, [op |-> "match", input |-> v, ret |-> r.v, thr |-> r.thr,
                              hs |-> hs])
  /\ UNCHANGED <<calls, slog, rvVars, algVars>>

\* partial(v).with({ err }) on a carrier or a lazy wrapper of one
PartialOp(v, tags) ==
  /\ Len(ops) < MaxOps
  /\ \E r \in {resolveInput(World, v)} : r.thr \/ isFect(r.w, r.v)
  /\ \E r \in {partial(World, v, tags)} :
       /\ heap' = r.w.heap
       /\ hlog' = r.w.hlog
       /\ ops' = Append(ops, [op |-> "partial", input |-> v, ret |-> r.v, thr |-> r.thr,
                              hs |-> [err |-> "byTag", tags |-> tags]])
  /\ UNCHANGED <<calls, slog, rvVars, algVars>>

\* what the caller holds to discharge: the result of the call, and the
\* carriers partial returned
Subjects ==
  {calls[k].ret : k \in {j \in 1..Len(calls) : ~calls[j].thr}}
    \cup {ops[o].ret : o \in {j \in 1..Len(ops) : ops[j].op = "partial" /\ ~ops[j].thr}}

\* the calls whose results are discharged: x => x and () => E.err(), on a
\* carrier, an async source or a lazy wrapper
MatchSourceHandlers == {"first", "fail"}
MatchArgChoices == [c : {"ok", "err", "errRaw", "src", "lazy"}, j : {0}]

MatchNext ==
  \/ \E h \in MatchSourceHandlers, ch \in MatchArgChoices :
       calls = <<>> /\ Call(h, NoOpts, <<ch>>)
  \/ \E i \in 1..Len(heap), how \in {"value", "carrier", "reject"} : SettleSource(i, how)
  \/ Drain
  \/ \E v \in Subjects, hs \in MatchHandlerChoices : MatchOp(v, hs)
  \/ \E v \in Subjects, tags \in TagChoices : PartialOp(v, tags)

SpecMatch == Init /\ [][MatchNext]_vars


\* ---- match on a value that is not a carrier
\* Further values: strings, false, null, symbols, objects with a string _tag
\* (with or without a value field) and objects without one.
Str(t) == [k |-> "string", x |-> 0, s |-> t]
False == [k |-> "bool", x |-> 0]
Null == [k |-> "null", x |-> 0]
SymbolValue == [k |-> "symbol", x |-> 0]
Variant(tag) == [k |-> "variant", x |-> 0, tag |-> tag]
VariantOf(tag, v) == [k |-> "variant", x |-> 0, tag |-> tag, value |-> v]
PlainObject == [k |-> "object", x |-> 0]

Digits == <<"0", "1", "2", "3", "4", "5", "6", "7", "8", "9">>
RECURSIVE NumberToString(_)
\* String(n) for a natural number
NumberToString(n) ==
  IF n < 10 THEN Digits[n + 1] ELSE NumberToString(n \div 10) \o Digits[(n % 10) + 1]

\* typeof value
typeOf(v) ==
  CASE v.k = "plain" -> "number"
    [] v.k = "NaN" -> "number"
    [] v.k = "string" -> "string"
    [] v.k = "bool" -> "boolean"
    [] v.k = "undefined" -> "undefined"
    [] v.k = "symbol" -> "symbol"
    [] OTHER -> "object"

NoKey == [has |-> FALSE, key |-> ""]
Key(t) == [has |-> TRUE, key |-> t]
\* literalKeyOfValue(value): null when the value has no literal key
literalKeyOfValue(v) ==
  CASE v.k = "null" -> Key("null")
    [] v.k = "undefined" -> Key("undefined")
    [] v.k = "string" -> Key(v.s)
    [] v.k = "plain" -> Key(NumberToString(v.x))
    [] v.k = "NaN" -> Key("NaN")
    [] v.k = "bool" -> Key(IF v.x = 1 THEN "true" ELSE "false")
    [] OTHER -> NoKey

\* The handlers object is given by the set of its own keys. handlers[key] also
\* finds what an object literal inherits from Object.prototype; these members
\* are functions.
InheritedFunctions == {"constructor", "toString", "valueOf"}
\* typeof handlers[key] === "function"
isHandlerKey(keys, key) == key \in keys \/ key \in InheritedFunctions

PlainHandler == 203
\* new Error(`Unhandled match value: ...`)
UnhandledMatchValue(v) ==
  [k |-> "Error", x |-> 0, message |-> "Unhandled match value", of |-> v]
\* handlers[key](bound): an own handler is recorded and returns its value; an
\* inherited member is called as a bare function (this is undefined):
\* Object(bound) gives an object, Object.prototype.toString gives
\* "[object Undefined]", Object.prototype.valueOf throws a TypeError.
callKeyed(w, keys, key, bound) ==
  IF key \in keys
    THEN Ret([w EXCEPT !.hlog = Append(@, [f |-> PlainHandler, args |-> <<bound>>,
                                          key |-> key])],
             [k |-> "handled", x |-> PlainHandler, of |-> bound, key |-> key])
  ELSE CASE key = "constructor" ->
              Ret(w, IF bound.k \in {"null", "undefined"} THEN PlainObject
                     ELSE [k |-> "object", x |-> 0, wraps |-> bound])
         [] key = "toString" -> Ret(w, Str("[object Undefined]"))
         [] key = "valueOf" -> Throw(w, TypeErrorCause)

\* typeof value === "object" && value !== null && typeof value._tag === "string"
isTaggedValue(v) == "tag" \in DOMAIN v
\* "value" in value ? value.value : value
boundOf(v) == IF "value" \in DOMAIN v THEN v.value ELSE v

\* dispatchPlainValue(value, handlers)
dispatchPlainValue(w, v, keys) ==
  IF isTaggedValue(v) /\ isHandlerKey(keys, v.tag) THEN callKeyed(w, keys, v.tag, boundOf(v))
  ELSE IF literalKeyOfValue(v).has /\ isHandlerKey(keys, literalKeyOfValue(v).key)
    THEN callKeyed(w, keys, literalKeyOfValue(v).key, v)
  ELSE IF isHandlerKey(keys, typeOf(v)) THEN callKeyed(w, keys, typeOf(v), v)
  ELSE IF isHandlerKey(keys, "unknown") THEN callKeyed(w, keys, "unknown", v)
  ELSE Throw(w, UnhandledMatchValue(v))

\* match(input).with(handlers) after the input is forced, for an input that is
\* not a carrier
matchPlainResolved(r, keys) == IF r.thr THEN r ELSE dispatchPlainValue(r.w, r.v, keys)
matchPlain(w, input, keys) == matchPlainResolved(resolveInput(w, input), keys)

\* the values matched and the keys a handlers object may have
PlainValues ==
  {P(42), Str("42"), Str("hello"), Str("toString"), True, Null, Undefined, SymbolValue,
   VariantOf("Circle", P(1)), Variant("Square"), PlainObject}
HandlerKeys == {"Circle", "42", "true", "null", "string", "number", "object", "unknown"}

\* match(v).with(handlers) on a plain value
MatchPlainOp(v, keys) ==
  /\ Len(ops) < MaxPlainMatches
  /\ \E r \in {matchPlain(World, v, keys)} :
       /\ heap' = r.w.heap
       /\ hlog' = r.w.hlog
       /\ ops' = Append(ops, [op |-> "matchPlain", input |-> v, ret |-> r.v, thr |-> r.thr,
                              keys |-> keys])
  /\ UNCHANGED <<calls, slog, rvVars, algVars>>

PlainNext == \E v \in PlainValues, keys \in SUBSET HandlerKeys : MatchPlainOp(v, keys)
SpecPlain == Init /\ [][PlainNext]_vars


\* ---- nested lazy wrappers
NestKinds == {"nest", "nestOk"}
NestHandlers == {"first", "add", "retLazy"}
LazyRefs == {[k |-> "ref", x |-> i] : i \in {j \in 1..Len(heap) : heap[j].kind = "lazy"}}
\* the handlers objects of a match on what a nest forces to
NestKeys == {{"number"}, {"unknown"}}
\* a call with a nest as its argument (deferred: the argument is lazy), then
\* the caller forces, coerces, extracts or discharges any wrapper it can
\* reach: the result of the call, the nest, an inner level of it
NestNext ==
  \/ \E h \in NestHandlers, kind \in NestKinds, d \in 1..MaxDepth :
       calls = <<>> /\ Call(h, NoOpts, <<[c |-> kind, j |-> d]>>)
  \/ \E v \in LazyRefs, op \in {"force", "coerce", "try"} : CallerOp(op, v)
  \/ \E v \in LazyRefs, hs \in MatchHandlerChoices : MatchOp(v, hs)
  \/ \E v \in LazyRefs, tags \in TagChoices : PartialOp(v, tags)
  \/ \E v \in LazyRefs, keys \in NestKeys :
       /\ \E r \in {resolveInput(World, v)} : ~r.thr /\ ~isFect(r.w, r.v)
       /\ MatchPlainOp(v, keys)
SpecNest == Init /\ [][NestNext]_vars


\* ======================================================== reading the histories
\* The claims about fn speak of a call c = calls[k]: its wrapped function c.f,
\* its arguments c.inputs, what it returned; hlog and ops tell what ran since.
CallIds == 1..Len(calls)
PendingP == [tag |-> "pending"]
RejectedP(cause) == [tag |-> "rejected", cause |-> cause]
NoClaim == [tag |-> "none"]

\* what a promise in a payload slot shows now
PromisePayload(i) ==
  CASE heap[i].st = "pending" -> PendingP
    [] heap[i].st = "fulfilled" -> heap[i].val
    [] heap[i].st = "rejected" -> RejectedP(heap[i].val)

\* the payload of carrier v as it stands now
PayloadNow(v) ==
  LET pl == heap[v.x].payload IN
    IF IsPayloadPromise(pl) THEN PromisePayload(pl.x) ELSE pl

\* what argument v of a call of f has resolved to: Ok(value), Err(error), or
\* pending. A carrier passes its payload, an async source its value or the
\* mapped rejection, anything else is a success as it is.
ArgOutcome(f, v) ==
  IF isFect(World, v)
    THEN LET pl == PayloadNow(v) IN
           IF pl.tag = "rejected" THEN ErrP(mapRejected(f, pl.cause)) ELSE pl
  ELSE IF isPromiseLike(World, v)
    THEN CASE heap[v.x].st = "pending" -> PendingP
           [] heap[v.x].st = "fulfilled" -> OkP(heap[v.x].val)
           [] heap[v.x].st = "rejected" -> ErrP(mapRejected(f, heap[v.x].val))
  ELSE OkP(v)

Positions(c) == 1..Len(c.inputs)
ErrArgs(c) == {n \in Positions(c) : ArgOutcome(c.f, c.inputs[n]).tag = "err"}
AllOk(c) == \A n \in Positions(c) : ArgOutcome(c.f, c.inputs[n]).tag = "ok"
ArgsSettled(c) == \A n \in Positions(c) : ArgOutcome(c.f, c.inputs[n]).tag # "pending"
LowestErr(c) ==
  ArgOutcome(c.f, c.inputs[CHOOSE n \in ErrArgs(c) : \A m \in ErrArgs(c) : n <= m])
HasLazyArg(c) == \E n \in Positions(c) : isFectLazy(World, c.inputs[n])
Infected(c) ==
  \E n \in Positions(c) : isFect(World, c.inputs[n]) \/ isPromiseLike(World, c.inputs[n])

\* the value the call has produced: what it returned or, when it returned a
\* lazy wrapper that has been forced since, the forced value
Result(c) ==
  IF ~c.thr /\ isFectLazy(World, c.ret) /\ heap[c.ret.x].hasValue
    THEN heap[c.ret.x].cachedValue
    ELSE c.ret
Produced(c) == ~c.thr /\ ~isFectLazy(World, Result(c))
ResultPayload(c) ==
  IF ~c.thr /\ isFect(World, Result(c)) THEN PayloadNow(Result(c)) ELSE NoClaim
IsSettled(pl) == pl.tag \in {"ok", "err", "rejected"}
\* no promise reaction is waiting to run
Quiet == ReadySet(World) = {}
\* the invocations of the handler of call c
HandlerRuns(c) == SelectSeq(hlog, LAMBDA e : e.f = c.f.id)
\* the caller has forced or discharged v itself
Targeted(v) == \E o \in 1..Len(ops) : ops[o].input = v


\* C1: in every call in which two or more arguments have ended up as errors,
\* once the result carrier's payload is settled it is the error of the
\* erroring argument at the lowest position, in whatever order the arguments
\* settled; and it is settled once every argument is and no reaction is left.
C1_PositionalTieBreak ==
  \A k \in CallIds :
    LET c == calls[k] IN
      Cardinality(ErrArgs(c)) >= 2 =>
        /\ ~c.thr
        /\ IsSettled(ResultPayload(c)) => ResultPayload(c) = LowestErr(c)
        /\ (ArgsSettled(c) /\ Quiet /\ Produced(c)) => ResultPayload(c) = LowestErr(c)
\* two pending arguments, the second settled first, both errors, different ones
C1_Witness ==
  \E k \in CallIds :
    LET c == calls[k] IN
      /\ Len(c.inputs) = 2 /\ Len(slog) = 2 /\ slog[1] > slog[2]
      /\ ErrArgs(c) = {1, 2}
      /\ ArgOutcome(c.f, c.inputs[1]) # ArgOutcome(c.f, c.inputs[2])
      /\ ResultPayload(c) = ArgOutcome(c.f, c.inputs[1])

\* C2: whenever an argument of a call carries an error (a settled Err carrier,
\* a pending carrier settled to Err, a rejected async source), the handler of
\* that call has not been invoked, on the synchronous and the asynchronous path.
C2_ShortCircuit ==
  \A k \in CallIds :
    LET c == calls[k] IN ErrArgs(c) # {} => HandlerRuns(c) = <<>>
\* a success at position 1, an async source that rejected at position 2: the
\* result has settled to that error and the handler has not run
C2_Witness ==
  \E k \in CallIds :
    LET c == calls[k] IN
      /\ Len(c.inputs) = 2 /\ ErrArgs(c) = {2}
      /\ isPromiseLike(World, c.inputs[2])
      /\ c.f.h = "add"
      /\ ResultPayload(c) = ErrP(defaultMapRejected(heap[c.inputs[2].x].val))
      /\ hlog = <<>>

\* a carrier whose payload's success value is itself a carrier
Nested(v) ==
  /\ isFect(World, v)
  /\ LET pl == PayloadNow(v) IN pl.tag = "ok" /\ isFect(World, pl.value)

\* C4: flattening invariant: for wrapped functions f and g and any input x,
\* what g(f(x)) has produced is never a carrier whose payload's success value
\* is itself a carrier.
C4_FlatteningInvariant ==
  \A k \in CallIds :
    (k >= 2 /\ ~calls[k].thr) => ~Nested(Result(calls[k]))

\* the handler h never reads its parameter at position n
Unread(h, n) ==
  \/ h \in {"fail", "throw", "retErr", "retLazy", "asyncFail", "asyncThrow"}
  \/ h \in {"first", "wrapOk", "asyncFirst", "asyncWrapOk"} /\ n >= 2

\* C5: lazy non-forcing: a lazy argument at a position the handler never
\* reads, which the caller has not forced itself, has run 0 times: not when the
\* call was made, and not when the call's result was forced or discharged.
C5_LazyNonForcing ==
  \A k \in CallIds :
    LET c == calls[k] IN
      \A n \in Positions(c) :
        (isFectLazy(World, c.inputs[n]) /\ Unread(c.f.h, n) /\ ~Targeted(c.inputs[n]))
          => heap[c.inputs[n].x].runs = 0
\* first(1, lazy), discharged with try to the first argument, the lazy not run
C5_Witness ==
  \E k \in CallIds :
    LET c == calls[k] IN
      /\ c.f.h = "first" /\ Len(c.inputs) = 2
      /\ c.inputs[1] = P(1)
      /\ isFectLazy(World, c.inputs[2]) /\ heap[c.inputs[2].x].runs = 0
      /\ \E o \in 1..Len(ops) :
           ops[o] = [op |-> "try", input |-> c.ret, ret |-> P(1), thr |-> FALSE]

\* C6: for any lazy wrapper and any sequence of force() calls, coercions and
\* discharges on it, the wrapped computation runs at most once.
C6_RunsAtMostOnce ==
  \A i \in 1..Len(heap) : heap[i].kind = "lazy" => heap[i].runs <= 1

\* C7: a call with a lazy argument returns a new lazy wrapper and does not
\* throw; until that result has been forced the handler of the call has not run
\* and no lazy argument has run unless the caller forced it itself. Along a
\* chain this keeps the source thunk from running until the final result (or
\* an intermediate one) is forced or discharged.
C7_LazyInfection ==
  \A k \in CallIds :
    LET c == calls[k] IN
      HasLazyArg(c) =>
        /\ ~c.thr
        /\ isFectLazy(World, c.ret)
        /\ \A n \in Positions(c) : c.inputs[n] # c.ret
        /\ heap[c.ret.x].runs = 0 =>
             /\ HandlerRuns(c) = <<>>
             /\ \A n \in Positions(c) :
                  (isFectLazy(World, c.inputs[n]) /\ ~Targeted(c.inputs[n]))
                    => heap[c.inputs[n].x].runs = 0
\* g(f(source)) with a lazy source: nothing ran before the final result was
\* forced; forcing it ran the source once and both handlers
C7_Witness ==
  /\ Len(calls) = 2 /\ Len(ops) = 1
  /\ LET src == calls[1].inputs[1] IN
       /\ Len(calls[1].inputs) = 1
       /\ isFectLazy(World, src) /\ heap[src.x].thunk.t = "const"
       /\ calls[2].inputs = <<calls[1].ret>>
       /\ ops[1].input = calls[2].ret /\ ~ops[1].thr
       /\ heap[src.x].runs = 1
       /\ heap[calls[1].ret.x].runs = 1
       /\ HandlerRuns(calls[1]) # <<>> /\ HandlerRuns(calls[2]) # <<>>

RECURSIVE SumOf(_, _)
\* the sum of the numbers vals[n..]
SumOf(vals, n) == IF n > Len(vals) THEN 0 ELSE vals[n].x + SumOf(vals, n + 1)
AllPlain(vals) == \A n \in 1..Len(vals) : vals[n].k = "plain"
\* the one invocation of the handler of c, with arguments vals
Invocation(c, vals) == <<[f |-> c.f.id, args |-> vals]>>

\* C8: plain path: when every argument is a plain value (also when there is
\* none) the handler has been invoked once, directly with those arguments; a
\* plain result is returned as it is, not as a carrier; a Fail result gives an
\* Err carrier with that error; an async result gives a carrier whose payload
\* is pending (a promise), which settles to what the async work yields.
C8_PlainPath ==
  \A k \in CallIds :
    LET c == calls[k] IN
      AllPlain(c.inputs) =>
        /\ HandlerRuns(c) = Invocation(c, c.inputs)
        /\ c.f.h = "first" => ~c.thr /\ c.ret = Arg1(c.inputs)
        /\ c.f.h = "add" =>
             ~c.thr /\ c.ret = IF c.inputs = <<>> THEN NaNValue ELSE P(SumOf(c.inputs, 1))
        /\ c.f.h = "fail" =>
             ~c.thr /\ isFect(World, c.ret)
                    /\ heap[c.ret.x].payload = ErrP(HandlerError(c.f))
        /\ c.f.h \in {"asyncFirst", "asyncFail", "asyncWrapOk", "asyncThrow"} =>
             /\ ~c.thr /\ isFect(World, c.ret)
             /\ IsPayloadPromise(heap[c.ret.x].payload)
             /\ Quiet => IsSettled(PayloadNow(c.ret))
             /\ (c.f.h = "asyncFirst" /\ IsSettled(PayloadNow(c.ret)))
                  => PayloadNow(c.ret) = OkP(Arg1(c.inputs))
             /\ (c.f.h = "asyncFail" /\ IsSettled(PayloadNow(c.ret)))
                  => PayloadNow(c.ret) = ErrP(HandlerError(c.f))
\* add(1, 2) returned the number 3
C8_Witness ==
  \E k \in CallIds :
    LET c == calls[k] IN
      c.f.h = "add" /\ c.inputs = <<P(1), P(2)>> /\ ~c.thr /\ c.ret = P(3)

\* the values the handler of c is to receive, in position order
Vals(c) == [n \in Positions(c) |-> ArgOutcome(c.f, c.inputs[n]).value]
\* the payload a handler result y is to give
PayloadOfYield(y) ==
  IF isFect(World, y) THEN PayloadNow(y)
  ELSE IF y.k = "ref" THEN NoClaim
  ELSE OkP(y)
\* what the result payload of an infected call c with successful inputs is to
\* be, by what its handler yields (NoClaim: a lazy wrapper, a throw, a sum over
\* something that is not a number)
ExpectedPayload(c) ==
  LET vals == Vals(c) IN
  CASE c.f.h \in {"first", "asyncFirst"} -> PayloadOfYield(Arg1(vals))
    [] c.f.h = "add" /\ AllPlain(vals) -> OkP(P(SumOf(vals, 1)))
    [] c.f.h \in {"fail", "asyncFail", "retErr"} -> ErrP(HandlerError(c.f))
    [] c.f.h \in {"wrapOk", "asyncWrapOk"} -> OkP(Arg1(vals))
    [] OTHER -> NoClaim

\* C9: in an infected call whose inputs have all resolved to successes, the
\* handler is invoked (once the call is evaluated) with the unwrapped values in
\* position order, and the result carrier's payload, once settled, is Ok(v)
\* for a plain value v the handler yields, Err(e) for Fail(e), and the yielded
\* carrier's payload for a carrier, whether the handler is sync or async; it
\* is settled once no reaction is left.
C9_InfectedSuccess ==
  \A k \in CallIds :
    LET c == calls[k] IN
      (Infected(c) /\ AllOk(c) /\ ExpectedPayload(c) # NoClaim) =>
        /\ ~c.thr
        /\ HandlerRuns(c) \in {<<>>, Invocation(c, Vals(c))}
        /\ IsSettled(ResultPayload(c)) =>
             /\ ResultPayload(c) = ExpectedPayload(c)
             /\ HandlerRuns(c) = Invocation(c, Vals(c))
        /\ (Quiet /\ Produced(c)) => ResultPayload(c) = ExpectedPayload(c)
\* add(ok(1), 2) gave a carrier holding Ok(3)
C9_Witness ==
  \E k \in CallIds :
    LET c == calls[k] IN
      /\ c.f.h = "add" /\ Len(c.inputs) = 2
      /\ isFect(World, c.inputs[1]) /\ c.inputs[2] = P(2)
      /\ HandlerRuns(c) = Invocation(c, <<P(1), P(2)>>)
      /\ ResultPayload(c) = OkP(P(3))

\* C10: in an infected call whose inputs have all resolved to successes and
\* whose handler throws, the call has not thrown and the result payload, once
\* settled, is Err of the thrown cause wrapped as UnknownException, or as the
\* image of mapThrown / mapDefect when one of them is configured; it is settled
\* once no reaction is left, on the synchronous and the asynchronous path.
C10_ThrowCaught ==
  \A k \in CallIds :
    LET c == calls[k]
        rp == ResultPayload(c)
        expected(pl) ==
          /\ pl.tag = "err"
          /\ pl.error.cause = HandlerCause(c.f)
          /\ IF c.f.opts.mapThrown \/ c.f.opts.mapDefect
               THEN pl.error.k \in {"MappedThrown", "MappedDefect"}
               ELSE pl.error = defaultMapThrown(HandlerCause(c.f))
    IN
      (c.f.h = "throw" /\ Infected(c) /\ AllOk(c)) =>
        /\ ~c.thr
        /\ IsSettled(rp) => expected(rp) /\ HandlerRuns(c) # <<>>
        /\ (Quiet /\ Produced(c)) => IsSettled(rp)
\* the asynchronous path: the argument was an async source that resolved, the
\* handler threw, the result settled to Err(UnknownException)
C10_Witness ==
  \E k \in CallIds :
    LET c == calls[k] IN
      /\ c.f.h = "throw" /\ c.f.opts = NoOpts
      /\ Len(c.inputs) = 1 /\ isPromiseLike(World, c.inputs[1])
      /\ ~c.thr
      /\ ResultPayload(c) = ErrP(defaultMapThrown(HandlerCause(c.f)))

\* the error a rejection with this cause is to become in a call of f
IsRejectionImage(f, e, cause) ==
  /\ "cause" \in DOMAIN e /\ e.cause = cause
  /\ e.k = (IF f.opts.mapRejected THEN "MappedRejected"
            ELSE IF f.opts.mapDefect THEN "MappedDefect"
            ELSE "PromiseRejected")
\* the cause argument n of c has been rejected with, if it has
RejectedWith(c, n) ==
  LET v == c.inputs[n] IN
    IF isFect(World, v)
      THEN (IF PayloadNow(v).tag = "rejected" THEN {PayloadNow(v).cause} ELSE {})
    ELSE IF isPromiseLike(World, v) /\ heap[v.x].st = "rejected" THEN {heap[v.x].val}
    ELSE {}

C12_NeverThrows ==
  /\ \A k \in CallIds : ~calls[k].thr
  /\ \A o \in 1..Len(ops) :
       (ops[o].op \in {"force", "coerce"} /\ \E k \in CallIds : calls[k].ret = ops[o].input)
         => ~ops[o].thr

\* stage k of a chain takes one argument, the result of stage k - 1
Unary(k) == Len(calls[k].inputs) = 1
\* stage j has yielded a carrier whose payload is an error
YieldedErr(j) == Produced(calls[j]) /\ ResultPayload(calls[j]).tag = "err"

\* C13: errors are never dropped: in a chain of one-argument calls, once stage
\* j has yielded Err(e), the next stage has not thrown, what it has produced
\* is a carrier whose payload, once settled, is exactly Err(e), and
\* discharging it with try throws e (or, from a pending payload, rejects
\* with e).
C13_ErrorsNeverDropped ==
  \A j \in CallIds : \A k \in CallIds :
    (k = j + 1 /\ Unary(j) /\ Unary(k) /\ YieldedErr(j)) =>
      LET e == ResultPayload(calls[j]).error
          c == calls[k]
      IN
        /\ ~c.thr
        /\ Produced(c) =>
             /\ isFect(World, Result(c))
             /\ IsSettled(ResultPayload(c)) => ResultPayload(c) = ErrP(e)
        /\ \A o \in 1..Len(ops) :
             (ops[o].op = "try" /\ ops[o].input = c.ret) =>
               IF ops[o].thr THEN ops[o].ret = e
               ELSE /\ isPromiseLike(World, ops[o].ret)
                    /\ heap[ops[o].ret.x].st # "fulfilled"
                    /\ heap[ops[o].ret.x].st = "rejected" => heap[ops[o].ret.x].val = e

\* ---- effect metadata as the carriers hold it
\* The metadata record fx names an error variant under "result": the error
\* itself for err(e), true when the error is not known in advance (a defect, an
\* async result), which stands for any variant.
Declares(fx, e) == "result" \in DOMAIN fx /\ fx.result \in {e, True}
\* the error variants a metadata record names
DeclaredErrors(fx) ==
  IF "result" \in DOMAIN fx /\ fx.result # True THEN {fx.result} ELSE {}
FxOf(v) == heap[v.x].fx

InputFx(v) ==
  IF isFect(World, v) THEN FxOf(v)
  ELSE IF isPromiseLike(World, v) THEN AsyncResultFx
  ELSE EmptyFx
\* mergedInFx of call c
MergedInFx(c) == MergeAll([n \in Positions(c) |-> [fx |-> InputFx(c.inputs[n])]], 1, EmptyFx)
\* what the result of the handler of c adds to the metadata, as the
\* synchronous infected path adds it: the variant of a Fail, the metadata of a
\* returned carrier, { result: true } for a throw, { async: true, result: true }
\* for an async result, nothing for a plain value
HandlerContribution(c) ==
  LET y == Arg1(Vals(c)) IN
  CASE c.f.h = "first" -> IF isFect(World, y) THEN FxOf(y) ELSE EmptyFx
    [] c.f.h \in {"add", "wrapOk"} -> EmptyFx
    [] c.f.h \in {"fail", "retErr"} -> [result |-> HandlerError(c.f)]
    [] c.f.h = "throw" -> ResultFx
    [] c.f.h \in {"asyncFirst", "asyncFail", "asyncWrapOk", "asyncThrow"} -> AsyncResultFx
\* the handlers whose contribution is settled by the call alone
ContributionKnown(c) ==
  /\ c.f.h # "retLazy"
  /\ c.f.h = "add" => AllPlain(Vals(c))

\* C15: for every call that has produced a carrier, on every path, the
\* carrier's metadata equals the merge of the metadata of all inputs with the
\* contribution of the handler's result: with nothing more when an input error
\* short-circuited the call, and with the handler's contribution (its declared
\* error variant, async = true for an async result) once the handler has run.
C15_MetadataIsMerge ==
  \A k \in CallIds :
    LET c == calls[k] IN
      (Produced(c) /\ isFect(World, Result(c))) =>
        /\ ErrArgs(c) # {} => FxOf(Result(c)) = MergedInFx(c)
        /\ (AllOk(c) /\ HandlerRuns(c) # <<>> /\ ContributionKnown(c)) =>
             FxOf(Result(c)) = mergeFxRuntime(MergedInFx(c), HandlerContribution(c))

\* ---- the merge of metadata records on its own
\* error variants a metadata record may name
NumVariants == 2
FxKeys == {"async", "result"}
\* the records fn builds: async is true when present; result is true or an error
FxRecords ==
  {[key \in ks |-> IF key = "async" THEN True ELSE r] :
     ks \in SUBSET FxKeys, r \in {True} \cup {Tagged(t) : t \in 1..NumVariants}}

MergeInit ==
  /\ RVInit /\ FnInit
  /\ fxA \in FxRecords /\ fxB \in FxRecords /\ fxC \in FxRecords
  /\ merged = NotMerged

\* mergeFxRuntime on two records, in both orders, and with the empty record
MergeTwo ==
  /\ merged.two = <<>>
  /\ merged' = [merged EXCEPT !.two =
                  [ab |-> mergeFxRuntime(fxA, fxB), ba |-> mergeFxRuntime(fxB, fxA),
                   ae |-> mergeFxRuntime(fxA, EmptyFx), ea |-> mergeFxRuntime(EmptyFx, fxA)]]
  /\ UNCHANGED <<fxA, fxB, fxC, rvVars, fnVars>>
\* mergeFxRuntime on three records, in both groupings
MergeThree ==
  /\ merged.three = <<>>
  /\ merged' = [merged EXCEPT !.three =
                  [ab_c |-> mergeFxRuntime(mergeFxRuntime(fxA, fxB), fxC),
                   a_bc |-> mergeFxRuntime(fxA, mergeFxRuntime(fxB, fxC))]]
  /\ UNCHANGED <<fxA, fxB, fxC, rvVars, fnVars>>

MergeNext == MergeTwo \/ MergeThree
SpecMerge == MergeInit /\ [][MergeNext]_vars

\* the values record fx holds under a name
ValuesAt(fx, key) == IF key \in DOMAIN fx THEN {fx[key]} ELSE {}

\* C16: merge is associative and commutative, the empty record is its
\* identity, and under each name the merged record holds the union of the
\* values the two operands hold under it.
C16_MergeLaws ==
  /\ merged.two # <<>> =>
       /\ merged.two.ab = merged.two.ba
       /\ merged.two.ae = fxA /\ merged.two.ea = fxA
       /\ \A key \in FxKeys :
            ValuesAt(merged.two.ab, key) = ValuesAt(fxA, key) \cup ValuesAt(fxB, key)
  /\ merged.three # <<>> => merged.three.ab_c = merged.three.a_bc

\* ---- discharges
\* the carrier a discharge of v has looked at: v, or what the lazy v forced to
Resolved(v) ==
  IF isFectLazy(World, v) /\ heap[v.x].hasValue THEN heap[v.x].cachedValue ELSE v
PartialOps == {o \in 1..Len(ops) : ops[o].op = "partial" /\ ~ops[o].thr}
\* the error of payload pl has a _tag that the handlers hs select
Selected(pl, hs) == pl.tag = "err" /\ hasTag(pl.error) /\ TagOf(pl.error) \in hs.tags
HasAsync(fx) == "async" \in DOMAIN fx

C18_PartialNarrows ==
  \A o \in PartialOps :
    DeclaredErrors(FxOf(ops[o].ret)) =
      {e \in DeclaredErrors(FxOf(Resolved(ops[o].input))) : TagOf(e) \notin ops[o].hs.tags}

\* the payload the discharge ops[o] looked at was settled when it was made
SyncOp(o) == ~IsPayloadPromise(heap[Resolved(ops[o].input).x].payload)
\* what dispatching the settled payload pl to the handlers hs comes to: the
\* value of the one handler that is called, or the fatal error
DispatchOutcome(pl, hs) ==
  IF pl.tag = "ok" THEN [thr |-> FALSE, v |-> Handled(OkHandler, pl.value)]
  ELSE IF hs.err = "fn" THEN [thr |-> FALSE, v |-> Handled(ErrFunction, pl.error)]
  ELSE IF hs.err = "byTag" /\ Selected(pl, hs)
    THEN [thr |-> FALSE, v |-> Handled(TagHandler, pl.error)]
  ELSE [thr |-> TRUE, v |-> MissingErrorHandler]
\* the discharge ops[o] has dispatched its payload
Dispatched(o) ==
  \/ SyncOp(o)
  \/ ops[o].op = "match" /\ ~ops[o].thr /\ Settled(World, ops[o].ret)
  \/ ops[o].op = "partial" /\ ~ops[o].thr /\ IsSettled(PayloadNow(ops[o].ret))
\* the handler invocations ops[o] accounts for so far: none or one
Due(o) ==
  LET pl == PayloadNow(Resolved(ops[o].input))
      out == DispatchOutcome(pl, ops[o].hs)
  IN
    IF ~Dispatched(o) THEN {}
    ELSE IF ops[o].op = "match"
      THEN (IF out.thr THEN {} ELSE {[f |-> out.v.x, args |-> <<out.v.of>>]})
    ELSE IF Selected(pl, ops[o].hs) THEN {[f |-> TagHandler, args |-> <<pl.error>>]}
    ELSE {}
\* the invocations of discharge handlers
DischargeRuns == SelectSeq(hlog, LAMBDA e : e.f \in {OkHandler, ErrFunction, TagHandler})
\* every discharge handler invocation is the one invocation of a discharge
\* that has dispatched, and there is no other
OneHandlerEach ==
  /\ Len(DischargeRuns) =
       Cardinality({o \in 1..Len(ops) : ops[o].op \in {"match", "partial"} /\ Due(o) # {}})
  /\ \A o \in 1..Len(ops) :
       ops[o].op \in {"match", "partial"} =>
         \A e \in Due(o) : \E n \in 1..Len(DischargeRuns) : DischargeRuns[n] = e

C20_PendingMatch ==
  /\ \A o \in 1..Len(ops) :
       (ops[o].op = "match" /\ ~SyncOp(o)) =>
         LET pl == PayloadNow(Resolved(ops[o].input))
             res == heap[ops[o].ret.x]
         IN
           /\ ~ops[o].thr /\ isPromiseLike(World, ops[o].ret)
           /\ ~IsSettled(pl) => res.st = "pending" /\ Due(o) = {}
           /\ res.st # "pending" =>
                /\ IsSettled(pl)
                /\ res.st = (IF DispatchOutcome(pl, ops[o].hs).thr THEN "rejected"
                             ELSE "fulfilled")
                /\ res.val = DispatchOutcome(pl, ops[o].hs).v
           /\ (IsSettled(pl) /\ Quiet) => res.st # "pending"
  /\ OneHandlerEach
\* the pending payload settled to a tagged error and the result settled to
\* what the handler for that tag returned, that handler having run once
C20_Witness ==
  \E o \in 1..Len(ops) :
    /\ ops[o].op = "match" /\ ~SyncOp(o)
    /\ PayloadNow(Resolved(ops[o].input)).tag = "err"
    /\ ops[o].hs.err = "byTag"
    /\ heap[ops[o].ret.x].st = "fulfilled"
    /\ heap[ops[o].ret.x].val = Handled(TagHandler, PayloadNow(Resolved(ops[o].input)).error)
    /\ Len(DischargeRuns) = 1

PlainMatches == {o \in 1..Len(ops) : ops[o].op = "matchPlain"}
\* the key of the handler that is to take value v among the own keys of the
\* handlers object, in the order tag, literal, typeof, unknown
ChosenKey(v, keys) ==
  IF isTaggedValue(v) /\ v.tag \in keys THEN Key(v.tag)
  ELSE IF literalKeyOfValue(v).has /\ literalKeyOfValue(v).key \in keys THEN literalKeyOfValue(v)
  ELSE IF typeOf(v) \in keys THEN Key(typeOf(v))
  ELSE IF "unknown" \in keys THEN Key("unknown")
  ELSE NoKey
\* the invocations of handlers of a plain match
PlainRuns == SelectSeq(hlog, LAMBDA e : e.f = PlainHandler)

\* C21: match on a plain value calls the handler keyed by the value's _tag when
\* it has a string _tag and the handlers have that key, else the handler keyed
\* by its literal (string, number, boolean, null, undefined), else the one
\* keyed by its typeof name, else the unknown handler, and returns what that
\* handler returns; exactly that one handler has been called. When no handler
\* applies it throws the fatal "Unhandled match value" and calls none.
C21_PlainDispatch ==
  \A o \in PlainMatches :
    LET v == ops[o].input
        chosen == ChosenKey(v, ops[o].keys)
    IN
      IF chosen.has
        THEN /\ ~ops[o].thr
             /\ "key" \in DOMAIN ops[o].ret /\ ops[o].ret.key = chosen.key
             /\ Len(PlainRuns) = 1 /\ PlainRuns[1].key = chosen.key
        ELSE /\ ops[o].thr
             /\ ops[o].ret = UnhandledMatchValue(v)
             /\ PlainRuns = <<>>

\* the try extractions made on a carrier (or on a lazy wrapper forced to one)
TryOps == {o \in 1..Len(ops) : ops[o].op = "try" /\ isFect(World, Resolved(ops[o].input))}

\* C22: try on a carrier whose payload is settled returns the value at once
\* for Ok and throws the carried error for Err; on a carrier whose payload is
\* pending it returns a pending promise, which is fulfilled with the value
\* once the payload has settled Ok and rejected with the carried error once it
\* has settled Err.
C22_TryExtraction ==
  \A o \in TryOps :
    LET in == Resolved(ops[o].input)
        pl == PayloadNow(in)
    IN
      IF ~IsPayloadPromise(heap[in.x].payload)
        THEN /\ pl.tag = "ok" => ~ops[o].thr /\ ops[o].ret = pl.value
             /\ pl.tag = "err" => ops[o].thr /\ ops[o].ret = pl.error
        ELSE /\ ~ops[o].thr /\ isPromiseLike(World, ops[o].ret)
             /\ pl.tag = "pending" => heap[ops[o].ret.x].st = "pending"
             /\ heap[ops[o].ret.x].st = "fulfilled" =>
                  pl.tag = "ok" /\ heap[ops[o].ret.x].val = pl.value
             /\ (heap[ops[o].ret.x].st = "rejected" /\ pl.tag # "rejected") =>
                  pl.tag = "err" /\ heap[ops[o].ret.x].val = pl.error
             /\ (IsSettled(pl) /\ Quiet) => heap[ops[o].ret.x].st # "pending"
\* try on a pending carrier that then settled to an error: the promise try
\* returned was rejected with that error
C22_Witness ==
  \E o \in TryOps :
    LET in == Resolved(ops[o].input) IN
      /\ IsPayloadPromise(heap[in.x].payload)
      /\ PayloadNow(in).tag = "err"
      /\ heap[ops[o].ret.x].st = "rejected"
      /\ heap[ops[o].ret.x].val = PayloadNow(in).error

\* ---- RemoteValue: timeout, registry, cleanup ----

\* the attempts of the history that settled instance i by hand (not the timer)
ManualSettlements(i) ==
  {n \in 1..Len(rvlog) : rvlog[n].id = i /\ rvlog[n].ret /\ rvlog[n].op # "timeout"}
\* the attempt of the history where the timer of instance i settled it
TimerSettlements(i) ==
  {n \in 1..Len(rvlog) : rvlog[n].id = i /\ rvlog[n].ret /\ rvlog[n].op = "timeout"}
TimerArmed(i) == rvs[i].created /\ rvs[i].timeoutId = "armed"
TimedOut(i) ==
  /\ rvs[i].settled
  /\ rvs[i].promise = Rejected(TimeoutReason)
\* once the timer has settled the instance: isSettled is true, the outcome is
\* the timeout error, and every later fill / fail / by-id call returned false
AfterTimerFired(i) ==
  \A n \in TimerSettlements(i) :
    /\ rvs[i].settled
    /\ rvs[i].base = Rejected(TimeoutReason)
    /\ rvs[i].promise \in {PendingSlot, Rejected(TimeoutReason)}
    /\ \A m \in (n + 1)..Len(rvlog) : rvlog[m].id = i => ~rvlog[m].ret

\* C23: an instance created with a positive timeoutMs eventually settles; if
\* nothing settled it by hand, wait() is then rejected with the timeout error
\* and isSettled is true; from the moment the timer has fired, every later
\* fill or fail on the instance returns false.
C23_TimeoutFails ==
  \A i \in RVIds :
    /\ TimerArmed(i) ~>
         (/\ rvs[i].settled
          /\ rvs[i].promise.st # "pending"
          /\ ManualSettlements(i) = {} => TimedOut(i))
    /\ [](ManualSettlements(i) = {} /\ rvs[i].promise.st # "pending" => TimedOut(i))
    /\ []AfterTimerFired(i)
\* the timer settled an instance, wait() is rejected with the timeout error,
\* and a later fill returned false
C23_Witness ==
  \E i \in RVIds :
    /\ TimedOut(i)
    /\ \E n \in TimerSettlements(i) :
         \E m \in (n + 1)..Len(rvlog) :
           rvlog[m].id = i /\ rvlog[m].op = "fill" /\ ~rvlog[m].ret

ByIdOps == {"resolveById", "rejectById"}
\* the step is a resolveById / rejectById call: it appended `a` to the history
ByIdStep(a) ==
  /\ Len(rvlog') = Len(rvlog) + 1
  /\ a = rvlog'[Len(rvlog')]
  /\ a.op \in ByIdOps
\* what a by-id call with the id of a registered, still pending instance does
SettlesById(a) ==
  /\ a.ret
  /\ rvs'[a.id].settled
  /\ rvs'[a.id].base = OutcomeOf(a)
  /\ \A j \in RVIds \ {a.id} : rvs'[j] = rvs[j]
\* the instances whose id the registry does not hold: never constructed,
\* constructed without register: true, or cleaned up after settlement
NeverRegistered(i) == ~rvs[i].created
Unregistered(i) == rvs[i].created /\ ~rvs[i].register
CleanedUp(i) == rvs[i].created /\ rvs[i].register /\ i \notin registry
ByIdCall(a) ==
  /\ (a.id \in registry /\ ~rvs[a.id].settled) => SettlesById(a)
  /\ (NeverRegistered(a.id) \/ Unregistered(a.id) \/ CleanedUp(a.id)) =>
        ~a.ret /\ rvs' = rvs /\ registry' = registry
\* the by-id calls of the history that returned true
ByIdSettlements == {n \in 1..Len(rvlog) : rvlog[n].op \in ByIdOps /\ rvlog[n].ret}

\* C24: resolveById(id, v) / rejectById(id, r) with the id of a registered,
\* still pending instance returns true and settles that instance, so that
\* wait() yields v / rejects with r; with an id the registry does not hold
\* (never registered, created without register: true, or cleaned up) it
\* returns false and changes no instance.
C24_ById ==
  /\ [][\A a \in {rvlog'[n] : n \in (Len(rvlog) + 1)..Len(rvlog')} :
          ByIdStep(a) => ByIdCall(a)]_vars
  /\ [](\A n \in ByIdSettlements :
          /\ rvs[rvlog[n].id].base = OutcomeOf(rvlog[n])
          /\ rvs[rvlog[n].id].promise \in {PendingSlot, OutcomeOf(rvlog[n])}
          /\ MicrotasksDrained => rvs[rvlog[n].id].promise = OutcomeOf(rvlog[n]))
\* resolveById settled a registered instance, wait() yields its value, and a
\* later by-id call with the same id, now cleaned up, returned false
C24_Witness ==
  \E n \in ByIdSettlements :
    /\ rvlog[n].op = "resolveById"
    /\ rvs[rvlog[n].id].promise = Fulfilled(rvlog[n].val)
    /\ \E m \in (n + 1)..Len(rvlog) :
         /\ rvlog[m].id = rvlog[n].id
         /\ rvlog[m].op \in ByIdOps
         /\ ~rvlog[m].reached /\ ~rvlog[m].ret

\* the attempts of the history that settled instance i, by any route
Settlements(i) == {n \in 1..Len(rvlog) : rvlog[n].id = i /\ rvlog[n].ret}
CleanedAfterSettlement(i) == i \notin registry /\ rvs[i].timeoutId = "null"
\* after the settlement no by-id call and no timer callback on the instance
\* returned true
NothingAfterSettlement(i) ==
  \A n \in Settlements(i) :
    \A m \in (n + 1)..Len(rvlog) :
      (rvlog[m].id = i /\ rvlog[m].op \in ByIdOps \cup {"timeout"}) => ~rvlog[m].ret

\* C25: once an instance is settled, by fill, fail, a by-id call or its
\* timer, every later resolveById / rejectById with its id returns false and
\* no later step (a timer callback included) changes the outcome; eventually,
\* and from the moment wait() has settled, the registry no longer holds the
\* id and no timer of the instance is scheduled.
C25_CleanupAtSettlement ==
  /\ [][\A i \in RVIds :
         rvs[i].settled => rvs'[i].settled /\ rvs'[i].base = rvs[i].base]_vars
  /\ \A i \in RVIds :
       /\ []NothingAfterSettlement(i)
       /\ [](rvs[i].promise.st # "pending" => CleanedAfterSettlement(i))
       /\ rvs[i].settled ~> (rvs[i].promise = rvs[i].base /\ CleanedAfterSettlement(i))
\* a registered instance with a timer was filled by hand; it is cleaned up,
\* and a rejectById with its id returned false afterwards
C25_Witness ==
  \E i \in RVIds :
    /\ rvs[i].register /\ CleanedAfterSettlement(i)
    /\ rvs[i].promise.st = "fulfilled"
    /\ \E n \in Settlements(i) :
         /\ rvlog[n].op = "fill"
         /\ \E m \in (n + 1)..Len(rvlog) :
              rvlog[m].id = i /\ rvlog[m].op = "rejectById" /\ ~rvlog[m].ret

\* the one call of the history has RemoteValue i as its argument
CallOn(i) == calls # <<>> /\ IsRemote(calls[1].inputs[1].x, i)
\* the call returned, without throwing, a carrier on a promise payload
ReturnedCarrier(c) ==
  ~c.thr /\ isFect(World, c.ret) /\ IsPayloadPromise(heap[c.ret.x].payload)
\* the handler returns a plain value
ReturnsValue(f) == f.h \in {"first", "add"}
\* the carrier is Ok(handler(v)) and the handler ran once, on v
SettledOk(c, v) ==
  /\ Len(HandlerRuns(c)) = 1 /\ HandlerRuns(c)[1].args = <<P(v)>>
  /\ IsSettled(PayloadNow(c.ret))
  /\ ReturnsValue(c.f) => PayloadNow(c.ret) = OkP(callHandler(World, c.f, <<P(v)>>).v)
\* the carrier is Err(PromiseRejected(reason)) and the handler did not run
SettledRejected(c, why) ==
  /\ HandlerRuns(c) = <<>>
  /\ PayloadNow(c.ret) = ErrP(defaultMapRejected(ReasonCause(why)))
RemotePending(i) ==
  CallOn(i) =>
    /\ ReturnedCarrier(calls[1])
    /\ heap[calls[1].inputs[1].x].st = "pending" =>
          PayloadNow(calls[1].ret).tag = "pending" /\ HandlerRuns(calls[1]) = <<>>
    /\ rvs[i].base.st = "rejected" => HandlerRuns(calls[1]) = <<>>
\* the carrier of the call has taken the outcome of RemoteValue i
RemoteSettled(i) ==
  IF rvs[i].base.st = "fulfilled"
    THEN SettledOk(calls[1], rvs[i].base.val)
    ELSE SettledRejected(calls[1], rvs[i].base.why)

\* C26: a call of a wrapped function with a RemoteValue as argument returns
\* a carrier with a pending payload without running the handler; once the
\* RemoteValue is filled with v the carrier settles to Ok(handler(v)), the
\* handler having run once on v; once it has failed with a reason, or timed
\* out, the carrier settles to Err(PromiseRejected(reason)) and the handler
\* never runs.
C26_RemoteSource ==
  \A i \in RVIds :
    /\ []RemotePending(i)
    /\ (CallOn(i) /\ rvs[i].settled) ~> (CallOn(i) /\ RemoteSettled(i))
\* the RemoteValue passed to the call timed out and the carrier holds the
\* mapped timeout rejection
C26_Witness ==
  \E i \in RVIds :
    /\ CallOn(i) /\ rvs[i].base = Rejected(TimeoutReason)
    /\ SettledRejected(calls[1], TimeoutReason)
\* the RemoteValue passed to the call was filled afterwards and the carrier
\* holds the handler's value
RemoteFilled ==
  \E i \in RVIds, v \in FillVals :
    /\ CallOn(i) /\ rvs[i].base = Fulfilled(v) /\ calls[1].f.h = "first"
    /\ PayloadNow(calls[1].ret) = OkP(P(v))

\* ---- what the handler of a wrapped function sees and returns

\* the invocations, so far, of handlers of wrapped functions
FnRuns == {e \in 1..Len(hlog) : hlog[e].f < OkHandler}

\* C27: the handler of a wrapped function is never invoked with a carrier as
\* an argument value, whatever the arguments of the call are (a carrier, a
\* carrier with a pending payload, an async source, one that resolves to a
\* carrier included).
C27_NeverCarrierArgument ==
  \A e \in FnRuns :
    \A n \in 1..Len(hlog[e].args) : ~isFect(World, hlog[e].args[n])

\* the lazy wrappers a handler returned
ReturnedThunks ==
  {i \in 1..Len(heap) :
     heap[i].kind = "lazy" /\ heap[i].thunk = [t |-> "const", v |-> LazyResultValue]}
\* the calls whose handler returns a lazy wrapper and has run
LazyReturns ==
  {c \in 1..Len(calls) :
     calls[c].f.h = "retLazy" /\ ~calls[c].thr /\ HandlerRuns(calls[c]) # <<>>}

\* C28: when the handler of a call returns a lazy wrapper, on the plain, the
\* synchronous infected and the asynchronous infected path alike, what the
\* call returned is a lazy wrapper, and as long as the caller has forced
\* nothing the wrapper the handler returned has not been run.
C28_LazinessKept ==
  \A c \in LazyReturns :
    /\ isFectLazy(World, calls[c].ret)
    /\ ops = <<>> => \A i \in ReturnedThunks : heap[i].runs = 0
\* on the plain path the handler's lazy wrapper comes back unforced
LazyKeptOnPlainPath ==
  \E c \in LazyReturns :
    /\ ~Infected(calls[c]) /\ ~HasLazyArg(calls[c])
    /\ calls[c].ret.x \in ReturnedThunks /\ heap[calls[c].ret.x].runs = 0

\* C29: for every call of a wrapped function the handler has been invoked at
\* most once, whatever the outcome and the order in which the inputs settled,
\* and however often a lazy wrapper the call returned has been forced or
\* discharged.
C29_NoRetry ==
  \A c \in 1..Len(calls) : Len(HandlerRuns(calls[c])) <= 1
\* a call that returned a lazy wrapper, forced twice, its handler having
\* returned: the handler ran once
ForcedTwiceRanOnce ==
  \E c \in 1..Len(calls) :
    /\ ~calls[c].thr /\ isFectLazy(World, calls[c].ret)
    /\ Len(ops) = 2 /\ \A o \in 1..2 : ops[o].input = calls[c].ret /\ ~ops[o].thr
    /\ Len(HandlerRuns(calls[c])) = 1

\* the promises that are the payload of a carrier
PayloadPromises ==
  {heap[i].payload.x : i \in {j \in 1..Len(heap) :
                                heap[j].kind = "fect" /\ IsPayloadPromise(heap[j].payload)}}

\* C30: the pending payload of a carrier, whether a constructor, a call of a
\* wrapped function or partial made it, is never rejected: it stays pending or
\* is fulfilled with an Ok or an Err variant, whatever the handler did.
C30_PayloadNeverRejects ==
  \A p \in PayloadPromises :
    /\ heap[p].st # "rejected"
    /\ heap[p].st = "fulfilled" => heap[p].val.tag \in {"ok", "err"}
\* a handler that threw after async inputs: the payload is fulfilled with Err
ThrowSettledErr ==
  \E c \in 1..Len(calls) :
    /\ calls[c].f.h = "throw" /\ ~calls[c].thr /\ isFect(World, calls[c].ret)
    /\ IsPayloadPromise(heap[calls[c].ret.x].payload)
    /\ PayloadNow(calls[c].ret) = ErrP(mapThrown(calls[c].f, HandlerCause(calls[c].f)))

\* ---- the join of an infected call

\* the one call returned a carrier on a promise payload
JoinCall == calls # <<>> /\ ReturnedCarrier(calls[1])
\* the async sources among the heap objects
Sources == {i \in 1..Len(heap) : heap[i].kind = "promise" /\ heap[i].d.d = "source"}
\* the reaction on every settled input has run, whatever the other inputs do
InputsTakenUp ==
  \A i \in 1..Len(heap) :
    (heap[i].kind = "promise" /\ heap[i].d.d = "toCore" /\ Settled(World, heap[i].d.src))
      => heap[i].st # "pending"

\* C31: when an infected call has pending inputs and each of them eventually
\* settles, the payload of the result carrier eventually settles, in whatever
\* order the inputs settle; and at every checkpoint each settled input has
\* been taken up, without waiting for another input.
C31_JoinSettles ==
  /\ JoinCall ~> (JoinCall /\ IsSettled(PayloadNow(calls[1].ret)))
  /\ [](Quiet => InputsTakenUp)
\* two async sources settled in the reverse of their positions, and the
\* payload of the result has settled
C31_Witness ==
  /\ JoinCall /\ IsSettled(PayloadNow(calls[1].ret))
  /\ Len(calls[1].inputs) = 2 /\ Len(slog) = 2
  /\ slog[1] = calls[1].inputs[2].x /\ slog[2] = calls[1].inputs[1].x

\* C32: the payload of the result of an infected call with pending inputs
\* stays pending, and the handler is not invoked, as long as one of the
\* inputs has not settled, even when an input at a lower position is
\* already a settled Err; so the result never settles if an input never does.
C32_JoinWaitsForAll ==
  (JoinCall /\ ~ArgsSettled(calls[1])) =>
    /\ PayloadNow(calls[1].ret).tag = "pending"
    /\ HandlerRuns(calls[1]) = <<>>
\* the first input is a settled Err, the second an async source that has not
\* settled: nothing is left to run and the result is still pending
C32_Witness ==
  /\ JoinCall /\ Quiet /\ Len(calls[1].inputs) = 2
  /\ ArgOutcome(calls[1].f, calls[1].inputs[1]).tag = "err"
  /\ ArgOutcome(calls[1].f, calls[1].inputs[2]).tag = "pending"
  /\ PayloadNow(calls[1].ret).tag = "pending"

\* What the final payload of call c is, given only its handler and what each
\* input has ended up as, position by position: the order in which the inputs
\* settled does not enter.
DeterminedPayload(c) ==
  IF ErrArgs(c) # {} THEN LowestErr(c)
  ELSE CASE c.f.h \in {"first", "asyncFirst"} -> PayloadOfYield(Arg1(Vals(c)))
         [] c.f.h = "add" ->
              LET r == sumArgs(World, Vals(c), 1, 0, FALSE) IN
                IF r.thr THEN ErrP(mapThrown(c.f, r.v)) ELSE OkP(r.v)
         [] c.f.h = "fail" -> ErrP(HandlerError(c.f))
         [] c.f.h = "throw" -> ErrP(mapThrown(c.f, HandlerCause(c.f)))
         [] c.f.h = "asyncThrow" -> ErrP(mapRejected(c.f, HandlerCause(c.f)))
         [] OTHER -> NoClaim
\* the handler invocations of call c, given only what the inputs ended up as
DeterminedRuns(c) == IF ErrArgs(c) # {} THEN <<>> ELSE Invocation(c, Vals(c))
\* the one call is over: every input has settled and no reaction is left
JoinOver == JoinCall /\ ArgsSettled(calls[1]) /\ Quiet

\* C33: the final payload of an infected call, and the argument values its
\* handler received at each position, are determined by the handler and the
\* eventual outcomes of the inputs alone; two runs of the same call whose
\* inputs end up the same but settle in different orders therefore end with
\* the same payload and the same handler arguments.
C33_Deterministic ==
  JoinOver =>
    /\ DeterminedPayload(calls[1]) # NoClaim
    /\ PayloadNow(calls[1].ret) = DeterminedPayload(calls[1])
    /\ HandlerRuns(calls[1]) = DeterminedRuns(calls[1])
\* two async sources, both rejected, the second first: the payload is the
\* mapped rejection of the first
C33_Witness ==
  /\ JoinOver /\ Len(calls[1].inputs) = 2 /\ Len(slog) = 2
  /\ slog[1] = calls[1].inputs[2].x /\ slog[2] = calls[1].inputs[1].x
  /\ ErrArgs(calls[1]) = {1, 2}
  /\ PayloadNow(calls[1].ret) = ArgOutcome(calls[1].f, calls[1].inputs[1])
  /\ ArgOutcome(calls[1].f, calls[1].inputs[1]) # ArgOutcome(calls[1].f, calls[1].inputs[2])

\* ---- which mapper a defect goes through
\* the mapper the options select for a rejection, and for a synchronous throw
RejectionMapper(opts) ==
  IF opts.mapRejected THEN "MappedRejected"
  ELSE IF opts.mapDefect THEN "MappedDefect" ELSE "PromiseRejected"
ThrowMapper(opts) ==
  IF opts.mapThrown THEN "MappedThrown"
  ELSE IF opts.mapDefect THEN "MappedDefect" ELSE "UnknownException"
\* error e is the image of cause under the mapper named
MappedBy(e, mapper, cause) == e.k = mapper /\ "cause" \in DOMAIN e /\ e.cause = cause

\* C34: in every call, the error a rejection has become (a rejected async
\* source, the handler's promise rejecting) is the image of mapRejected if
\* supplied, else of mapDefect if supplied, else PromiseRejected; the error a
\* synchronous throw of the handler has become is the image of mapThrown if
\* supplied, else of mapDefect if supplied, else UnknownException; so no
\* rejection goes through mapThrown and no throw through mapRejected.
C34_MapperSelection ==
  \A k \in CallIds :
    LET c == calls[k]
        rp == ResultPayload(c)
    IN
      IsSettled(rp) =>
        /\ \A n \in Positions(c) : \A cause \in RejectedWith(c, n) :
             ErrArgs(c) = {n} =>
               rp.tag = "err" /\ MappedBy(rp.error, RejectionMapper(c.f.opts), cause)
        /\ (c.f.h = "asyncThrow" /\ HandlerRuns(c) # <<>>) =>
             rp.tag = "err"
               /\ MappedBy(rp.error, RejectionMapper(c.f.opts), HandlerCause(c.f))
        /\ (c.f.h = "throw" /\ HandlerRuns(c) # <<>>) =>
             rp.tag = "err" /\ MappedBy(rp.error, ThrowMapper(c.f.opts), HandlerCause(c.f))
\* mapRejected and mapDefect both supplied, mapThrown not: a rejecting handler
\* went through mapRejected
C34_Witness ==
  \E k \in CallIds :
    LET c == calls[k] IN
      /\ c.f.opts = [mapRejected |-> TRUE, mapThrown |-> FALSE, mapDefect |-> TRUE]
      /\ c.f.h = "asyncThrow" /\ HandlerRuns(c) # <<>>
      /\ ResultPayload(c).tag = "err"
      /\ MappedBy(ResultPayload(c).error, "MappedRejected", HandlerCause(c.f))
\* the same options, a throwing handler: the throw went through mapDefect
ThrowThroughMapDefect ==
  \E k \in CallIds :
    LET c == calls[k] IN
      /\ c.f.opts = [mapRejected |-> TRUE, mapThrown |-> FALSE, mapDefect |-> TRUE]
      /\ c.f.h = "throw" /\ HandlerRuns(c) # <<>>
      /\ ResultPayload(c).tag = "err"
      /\ MappedBy(ResultPayload(c).error, "MappedDefect", HandlerCause(c.f))

\* ---- what every carrier holds
\* the carriers made so far, by ok, err, a wrapped call or partial
Carriers == {i \in 1..Len(heap) : heap[i].kind = "fect"}
CarrierRef(i) == [k |-> "ref", x |-> i]

OneErrorDeclared ==
  \E k \in CallIds :
    /\ Len(calls[k].inputs) = 1 /\ Produced(calls[k]) /\ isFect(World, Result(calls[k]))
    /\ Result(calls[k]) # calls[k].inputs[1]
    /\ ResultPayload(calls[k]) = ErrP(Tagged(1))
    /\ FxOf(Result(calls[k])).result = Tagged(1)

\* the metadata record says async
AsyncFlag(fx) == "async" \in DOMAIN fx /\ fx.async = True

\* C36: the metadata of a carrier says async exactly when its payload is an
\* asynchronous handle (a promise): a carrier on a promise always has the
\* flag, a carrier holding its Ok or Err directly never has it.
C36_AsyncFlagExact ==
  \A i \in Carriers : AsyncFlag(heap[i].fx) <=> IsPayloadPromise(heap[i].payload)
\* partial on a carrier with a pending payload gave a carrier on a promise
\* that has the flag, next to a carrier made by ok or err that has not
C36_Witness ==
  /\ \E o \in PartialOps :
       /\ ~ops[o].thr /\ isFect(World, ops[o].ret)
       /\ IsPayloadPromise(heap[ops[o].ret.x].payload)
       /\ AsyncFlag(FxOf(ops[o].ret))
  /\ \E i \in Carriers : ~IsPayloadPromise(heap[i].payload) /\ ~AsyncFlag(heap[i].fx)

\* ---- forcing lazy wrappers
\* the lazy wrappers whose computation throws
ThrowingThunks == {i \in 1..Len(heap) : heap[i].kind = "lazy" /\ heap[i].thunk.t = "throw"}
\* the caller's force() calls and coercions on wrapper i, in order
ForcesOf(i) ==
  SelectSeq(ops, LAMBDA o : o.op \in {"force", "coerce"} /\ o.input = CarrierRef(i))

NestLevels == {i \in 1..Len(heap) : heap[i].kind = "lazy" /\ heap[i].thunk.t = "inner"}
RECURSIVE LevelsBelow(_)
\* the levels of the nest from wrapper i inwards
LevelsBelow(i) ==
  IF isFectLazy(World, heap[i].thunk.v) THEN {i} \cup LevelsBelow(heap[i].thunk.v.x) ELSE {i}
RECURSIVE Bottom(_)
\* the value at the bottom of the nest of wrapper i
Bottom(i) ==
  IF isFectLazy(World, heap[i].thunk.v) THEN Bottom(heap[i].thunk.v.x) ELSE heap[i].thunk.v
\* the operations that force fully: coercion, try, match, partial
ForcesFully(o) == o.op \in {"coerce", "try", "match", "partial", "matchPlain"}
\* what the full forcing of the nest at ops[o].input is to hand on
ForcedThrough(o) ==
  LET b == Bottom(o.input.x) IN
    /\ ~isFectLazy(World, b)
    /\ \A i \in LevelsBelow(o.input.x) : heap[i].hasValue /\ heap[i].runs = 1
    /\ o.op = "coerce" => ~o.thr /\ o.ret = b
    /\ (o.op = "try" /\ ~isFect(World, b)) => ~o.thr /\ o.ret = b
    /\ (o.op = "try" /\ isFect(World, b)) => ~o.thr /\ o.ret = PayloadNow(b).value
    /\ o.op = "match" => ~o.thr /\ o.ret = Handled(OkHandler, PayloadNow(b).value)
    /\ o.op = "partial" => ~o.thr /\ isFect(World, o.ret) /\ PayloadNow(o.ret) = PayloadNow(b)
    /\ o.op = "matchPlain" => o.thr \/ ~isFectLazy(World, o.ret)

\* C38: full forcing of a nest of lazy wrappers (by coercion, try, match or
\* partial on it, or by forcing the result of a call that returned it) ends
\* with the value at the bottom, which is no lazy wrapper, and has run every
\* level of the nest once; no level ever runs twice, whatever was forced
\* before or is forced again.
C38_ForcedThrough ==
  /\ \A i \in NestLevels : heap[i].runs <= 1 /\ (heap[i].runs = 1 <=> heap[i].hasValue)
  /\ \A o \in 1..Len(ops) :
       (ForcesFully(ops[o]) /\ ops[o].input.x \in NestLevels) => ForcedThrough(ops[o])
  /\ \A k \in CallIds : \A o \in 1..Len(ops) :
       (ops[o].input = calls[k].ret /\ ~ops[o].thr /\ calls[k].f.h = "first") =>
         /\ \A i \in LevelsBelow(calls[k].inputs[1].x) : heap[i].runs = 1
         /\ ops[o].op \in {"force", "coerce"} => ops[o].ret = Bottom(calls[k].inputs[1].x)
\* a nest of MaxDepth levels whose second level was forced first and which
\* was then coerced from the top: every level has run once
C38_Witness ==
  /\ Len(ops) = 2
  /\ \E i \in NestLevels :
       /\ Cardinality(LevelsBelow(i)) = MaxDepth
       /\ ops[2].op = "coerce" /\ ops[2].input.x = i
       /\ ops[1].op = "force" /\ ops[1].input = heap[i].thunk.v
       /\ \A j \in LevelsBelow(i) : heap[j].runs = 1
       /\ ops[2].ret = Bottom(i)

====
